---- MODULE Spec2Model ----
(***************************************************************************)
(* Drip-irrigation simulator: the tank manager (WaterVolumeManager), the   *)
(* soil manager (SoilMoistureManager), the settings form and the timers    *)
(* that drive them.                                                        *)
(*                                                                         *)
(* Units.  Moisture is a fixed-point number in thousandths of a percent    *)
(* (the code computes in floating point); Pct(p) is p percent.  Tank       *)
(* volumes are litres.  A time string "HH:MM" is the pair <<h, m>>.  `now' *)
(* counts whole minutes since the page was loaded; `half' counts half      *)
(* seconds inside the current minute and is used by the timer              *)
(* specification only.  An optional value (null / undefined in the code)   *)
(* is the empty sequence, a present value v is <<v>>.                      *)
(***************************************************************************)
EXTENDS Integers, Sequences, FiniteSets, TLC

VARIABLES
    water,            \* WaterVolumeManager.settings
    soil,             \* SoilMoistureManager.settings
    savedTank,        \* localStorage 'waterVolumeSettings': the settings as last saved
    savedSoil,        \* localStorage 'soilMoistureSettings': the settings as last saved
    irrigationLogs,   \* localStorage 'irrigationLogs'
    moistureLogs,     \* localStorage 'soilMoistureLogs': the entries the chart reads, followed
                      \* in the log specification
    chain,            \* wrappers installed around performIrrigation, innermost first
    scheduledIntervals, \* WaterVolumeManager.scheduledIntervals: one time string per setInterval
    stopTimers,       \* due minutes of the pending auto-stop setTimeout callbacks
    pending,          \* one-shot callbacks that are scheduled and have not run yet
    currentSettings,  \* the settings module's currentSettings
    storedSettings,   \* localStorage 'irrigationSettings' (optional)
    apiCondition,     \* weatherAPI.currentWeather.condition
    now,              \* minutes since page load
    half,             \* half seconds inside the current minute
    polled,           \* the one-minute poll's last run, the schedule intervals that ran in
                      \* this minute, whether the intervals were created in this minute,
                      \* and the weather listener's last run
    nextDue,          \* timer specification: half second at which each one-second interval runs next
    triggerCount,     \* timer specification: triggers emitted per interval
    evap,             \* evaporation specification: bookkeeping of the run
    schedLog,         \* scheduled triggers that consumed water or started soil irrigation
    ops,              \* user commands issued so far
    configured,       \* a settings save or a reset has changed the configuration
    lastOp,           \* the handler that ran last, with its inputs and result
    pre               \* the state that handler started from

vars == <<water, soil, savedTank, savedSoil, irrigationLogs, moistureLogs, chain, scheduledIntervals, stopTimers,
          pending, currentSettings, storedSettings, apiCondition, now, half,
          polled, nextDue, triggerCount, evap, schedLog, ops, configured, lastOp, pre>>

----------------------------------------------------------------------------
(* Bounds *)

MaxNow == 5             \* minutes of wall-clock time explored by Spec
MaxOps == 1             \* user commands (manual irrigation, settings save) per run
MaxEvapMinutes == 76    \* minutes explored by SpecEvap
MaxTimerMinutes == 2    \* minutes explored by SpecTimer
MaxSoilNow == 5         \* minutes of wall-clock time explored by SpecSoil
MaxSoilOps == 2         \* user commands, feed deliveries and reloads per run of SpecSoil
MaxLongNow == 17        \* minutes of wall-clock time explored by SpecLong
MaxConfigNow == 2       \* minutes of wall-clock time explored by SpecConfig
MaxSlotNow == 1440      \* minutes of wall-clock time explored by SpecSlot: one day
MaxLogOps == 3          \* calls of the two logging functions per run of SpecLog
MaxLogNow == 2          \* minutes of wall-clock time explored by SpecLog
MaxRampNow == 16        \* minutes of wall-clock time explored by SpecRamp
MaxJumpNow == 75        \* minutes of wall-clock time explored by SpecJump
MaxAccumNow == 32       \* minutes of wall-clock time explored by SpecAccum
MaxRestartNow == 3      \* minutes of wall-clock time explored by SpecRestart
MaxDebounceNow == 7     \* minutes of wall-clock time explored by SpecDebounce
MaxStopNow == 7         \* minutes of wall-clock time explored by SpecStop
MaxDurationNow == 2     \* minutes explored by SpecDuration

----------------------------------------------------------------------------
(* Values *)

Pct(p) == p * 1000

Min2(a, b) == IF a < b THEN a ELSE b
Max2(a, b) == IF a > b THEN a ELSE b

\* the element of a one-element set; { e(x) : x \in {v} } names the value v once
TheOnly(S) == CHOOSE x \in S : TRUE

\* A value read back from JSON, as far as `typeof' tells values apart: a
\* number carries its value, anything else (a string such as "NaN", null)
\* only its type.
JsonNumber(n) == [type |-> "number", num |-> n]
JsonString == [type |-> "string", num |-> 0]
JsonNull == [type |-> "object", num |-> 0]

\* parseInt of a form field that holds no number is NaN.  NaN is kept as one
\* value outside the numbers a field can hold; a comparison with NaN on
\* either side is false, and NaN is falsy.
NaN == 0 - 1000000
JsLess(a, b) == a # NaN /\ b # NaN /\ a < b
JsLessEq(a, b) == a # NaN /\ b # NaN /\ a <= b
JsGreater(a, b) == JsLess(b, a)
JsGreaterEq(a, b) == JsLessEq(b, a)
Truthy(n) == n # 0 /\ n # NaN

\* Wall clock: the page is loaded at 06:59.
StartClock == 6 * 60 + 59
Clock == (StartClock + now) % 1440
NowHours == Clock \div 60
NowMinutes == Clock % 60
\* `${hours.padStart(2,'0')}:${minutes.padStart(2,'0')}` of the current time
CurrentTimeString == <<NowHours, NowMinutes>>

T0700 == <<7, 0>>
T1600 == <<16, 0>>

\* Order of two time strings under Array.prototype.sort (string order of "HH:MM")
TimeLess(a, b) == a[1] < b[1] \/ (a[1] = b[1] /\ a[2] < b[2])

RECURSIVE Insert(_, _)
Insert(t, s) ==
    IF s = <<>> THEN <<t>>
    ELSE IF TimeLess(t, Head(s)) THEN <<t>> \o s
    ELSE <<Head(s)>> \o Insert(t, Tail(s))

RECURSIVE SortTimes(_)
SortTimes(s) == IF s = <<>> THEN <<>> ELSE Insert(Head(s), SortTimes(Tail(s)))

\* schedules.filter(s => s.enabled).map(s => s.time)
RECURSIVE ActiveSchedules(_)
ActiveSchedules(schedules) ==
    IF schedules = <<>> THEN <<>>
    ELSE (IF Head(schedules).enabled THEN <<Head(schedules).time>> ELSE <<>>)
         \o ActiveSchedules(Tail(schedules))

----------------------------------------------------------------------------
(* Construction defaults *)

DefaultWater ==
    [ tankCapacity     |-> 90,
      currentLevel     |-> 72,
      irrigationVolume |-> 7,
      schedules        |-> << [time |-> T0700, enabled |-> TRUE],
                              [time |-> T1600, enabled |-> TRUE] >>,
      lowLevelThreshold |-> 20,
      emptyTankTime    |-> <<>>,
      autoIrrigation   |-> TRUE ]

\* the constructor's defaults as a faulty variant: the default moisture is 50
DefaultSoilMoisture50 ==
    [ currentMoisture  |-> Pct(50),
      irrigationDuration |-> 15,
      weather          |-> "cerah",
      isIrrigating     |-> FALSE,
      irrigationStartTime |-> <<>>,
      irrigationTargetMoisture |-> Pct(40),
      lastUpdate       |-> 0,
      scheduledIrrigations |-> <<T0700, T1600>>,
      lastIrrigationCheck |-> 0,
      moistureDecreaseAccumulator |-> 0,
      moistureThresholds |-> <<>>,
      autoIrrigation   |-> <<>> ]

DefaultSoil ==
    [ currentMoisture  |-> Pct(45),
      irrigationDuration |-> 15,
      weather          |-> "cerah",
      isIrrigating     |-> FALSE,
      irrigationStartTime |-> <<>>,
      irrigationTargetMoisture |-> Pct(40),
      lastUpdate       |-> 0,
      scheduledIrrigations |-> <<T0700, T1600>>,
      lastIrrigationCheck |-> 0,
      moistureDecreaseAccumulator |-> 0,
      moistureThresholds |-> <<>>,
      autoIrrigation   |-> <<>> ]

DefaultCurrentSettings ==
    [ waterLevel |-> [ tankCapacity |-> 90, irrigationVolume |-> 7,
                       lowLevelThreshold |-> 20,
                       schedule1 |-> T0700, schedule2 |-> T1600,
                       schedule1Enabled |-> TRUE, schedule2Enabled |-> TRUE ],
      soilMoisture |-> [ min |-> 40, max |-> 80, optimal |-> 65 ],
      irrigation |-> [ duration |-> 15, interval |-> 30 ],
      alerts |-> [ enabled |-> TRUE, autoIrrigation |-> TRUE ] ]

----------------------------------------------------------------------------
(* SoilMoistureManager: pure parts.  A bundle b is the state one handler   *)
(* works on: b.w the tank settings, b.s the soil settings, b.logs the      *)
(* irrigation log, b.timers the pending auto-stop timers.                  *)

Bundle == [w |-> water, s |-> soil, logs |-> irrigationLogs, timers |-> stopTimers]

\* startIrrigation as a faulty variant: the accumulator is not reset
StartIrrigationKeepAccumulator(b) ==
    IF b.s.isIrrigating THEN b
    ELSE LET currentMoisture == b.s.currentMoisture
             targetMoisture == Min2(Pct(40), Max2(Pct(25), currentMoisture + Pct(12)))
             duration == b.s.irrigationDuration
         IN [b EXCEPT !.s = [@ EXCEPT !.isIrrigating = TRUE,
                                      !.irrigationStartTime = <<now>>,
                                      !.irrigationTargetMoisture = targetMoisture],
                      !.timers = Append(@, now + duration)]

\* startIrrigation as a faulty variant: the isIrrigating test is missing
StartIrrigationAgain(b) ==
    LET currentMoisture == b.s.currentMoisture
        targetMoisture == Min2(Pct(40), Max2(Pct(25), currentMoisture + Pct(12)))
        duration == b.s.irrigationDuration
    IN [b EXCEPT !.s = [@ EXCEPT !.isIrrigating = TRUE,
                                 !.irrigationStartTime = <<now>>,
                                 !.irrigationTargetMoisture = targetMoisture,
                                 !.moistureDecreaseAccumulator = 0],
                 !.timers = Append(@, now + duration)]

StartIrrigation(b) ==
    IF b.s.isIrrigating THEN b
    ELSE LET currentMoisture == b.s.currentMoisture
             targetMoisture == Min2(Pct(40), Max2(Pct(25), currentMoisture + Pct(12)))
             duration == b.s.irrigationDuration
         IN [b EXCEPT !.s = [@ EXCEPT !.isIrrigating = TRUE,
                                      !.irrigationStartTime = <<now>>,
                                      !.irrigationTargetMoisture = targetMoisture,
                                      !.moistureDecreaseAccumulator = 0],
                      !.timers = Append(@, now + duration)]

StopIrrigation(s) ==
    IF ~s.isIrrigating THEN s
    ELSE [s EXCEPT !.isIrrigating = FALSE,
                   !.irrigationStartTime = <<>>,
                   !.moistureDecreaseAccumulator = 0]

\* shouldTriggerIrrigation as a faulty variant: the isIrrigating test is missing
ShouldTriggerIrrigationNoGuard(s) ==
    LET threshold == IF s.moistureThresholds # <<>> THEN Pct(s.moistureThresholds[1].min)
                     ELSE Pct(35)
    IN s.currentMoisture < threshold /\ s.autoIrrigation # <<FALSE>>

ShouldTriggerIrrigation(s) ==
    LET threshold == IF s.moistureThresholds # <<>> THEN Pct(s.moistureThresholds[1].min)
                     ELSE Pct(35)
    IN s.currentMoisture < threshold /\ ~s.isIrrigating /\ s.autoIrrigation # <<FALSE>>

GetEvaporationParameters(weather) ==
    CASE weather = "cerah"   -> [rate |-> 1, interval |-> 15]
      [] weather = "mendung" -> [rate |-> 1, interval |-> 30]
      [] weather = "hujan"   -> [rate |-> 0, interval |-> 0]
      [] OTHER               -> [rate |-> 1, interval |-> 20]

\* the while loop of processNaturalEvaporation
RECURSIVE DrainAccumulator(_, _)
DrainAccumulator(s, params) ==
    IF s.moistureDecreaseAccumulator >= params.interval
    THEN DrainAccumulator(
             [s EXCEPT !.currentMoisture = Max2(0, @ - Pct(params.rate)),
                       !.moistureDecreaseAccumulator = @ - params.interval],
             params)
    ELSE s

\* processNaturalEvaporation as a faulty variant: one decrease per tick at most
ProcessNaturalEvaporationOnce(s, timeDiff) ==
    LET params == GetEvaporationParameters(s.weather)
        s1 == [s EXCEPT !.moistureDecreaseAccumulator = @ + timeDiff]
    IN IF params.rate > 0 /\ s1.moistureDecreaseAccumulator >= params.interval
       THEN [s1 EXCEPT !.currentMoisture = Max2(0, @ - Pct(params.rate)),
                       !.moistureDecreaseAccumulator = @ - params.interval]
       ELSE IF params.rate > 0 THEN s1 ELSE s

ProcessNaturalEvaporation(s, timeDiff) ==
    LET params == GetEvaporationParameters(s.weather)
    IN IF params.rate > 0
       THEN DrainAccumulator([s EXCEPT !.moistureDecreaseAccumulator = @ + timeDiff], params)
       ELSE s

\* processIrrigationIncrease as a faulty variant: a linear ramp to the target
\* startIrrigation computed
ProcessIrrigationIncreaseFixedTarget(s, timeDiff) ==
    LET irrigationStartTime == IF s.irrigationStartTime # <<>> THEN s.irrigationStartTime[1]
                               ELSE now
        irrigationTime == now - irrigationStartTime
    IN IF irrigationTime <= s.irrigationDuration
       THEN LET targetMoisture == s.irrigationTargetMoisture
                totalIncrease == targetMoisture - s.currentMoisture
                increaseAmount == (totalIncrease * timeDiff) \div s.irrigationDuration
                m1 == Min2(targetMoisture, s.currentMoisture + increaseAmount)
            IN [s EXCEPT !.currentMoisture = Min2(Pct(40), m1)]
       ELSE s

ProcessIrrigationIncrease(s, timeDiff) ==
    LET irrigationStartTime == IF s.irrigationStartTime # <<>> THEN s.irrigationStartTime[1]
                               ELSE now
        irrigationTime == now - irrigationStartTime
    IN IF irrigationTime <= s.irrigationDuration
       THEN LET targetMoisture == Min2(Pct(40), Max2(Pct(25), s.currentMoisture + Pct(15)))
                totalIncrease == targetMoisture - s.currentMoisture
                increaseAmount == (totalIncrease * timeDiff) \div s.irrigationDuration
                m1 == Min2(targetMoisture, s.currentMoisture + increaseAmount)
            IN [s EXCEPT !.currentMoisture = Min2(Pct(40), m1)]
       ELSE s

\* updateMoisture as a faulty variant: the measured minutes are not limited
\* to 60
UpdateMoistureOfWholeGap(s) ==
    LET timeDiff == now - s.lastUpdate
        s1 == IF s.isIrrigating THEN ProcessIrrigationIncrease(s, timeDiff)
              ELSE IF s.weather # "hujan" THEN ProcessNaturalEvaporation(s, timeDiff)
              ELSE s
    IN [s1 EXCEPT !.currentMoisture = Max2(0, Min2(Pct(100), @)),
                  !.lastUpdate = now]

\* updateMoisture, run at minute `now'
UpdateMoistureOf(s) ==
    LET timeDiff == now - s.lastUpdate
        actualTimeDiff == Min2(timeDiff, 60)
        s1 == IF s.isIrrigating THEN ProcessIrrigationIncrease(s, actualTimeDiff)
              ELSE IF s.weather # "hujan" THEN ProcessNaturalEvaporation(s, actualTimeDiff)
              ELSE s
    IN [s1 EXCEPT !.currentMoisture = Max2(0, Min2(Pct(100), @)),
                  !.lastUpdate = now]

\* applyRainEffect as a faulty variant: the rain is added to the moisture
\* and the sum is not clamped
ApplyRainEffectAdditive(s, rainMoisture) ==
    [s EXCEPT !.currentMoisture = @ + rainMoisture,
              !.moistureDecreaseAccumulator = 0]

\* applyRainEffect as a faulty variant: the accumulator is not reset
ApplyRainEffectKeepAccumulator(s, rainMoisture) ==
    [s EXCEPT !.currentMoisture = Min2(Pct(100), Max2(0, rainMoisture))]

ApplyRainEffect(s, rainMoisture) ==
    [s EXCEPT !.currentMoisture = Min2(Pct(100), Max2(0, rainMoisture)),
              !.moistureDecreaseAccumulator = 0]

SetWeather(s, weather, rainMoisture) ==
    TheOnly({ IF weather = "hujan" /\ old.weather # "hujan"
              THEN ApplyRainEffect([old EXCEPT !.weather = weather], rainMoisture)
              ELSE [old EXCEPT !.weather = weather] :
              old \in {s} })

\* the [schedule1 if enabled, schedule2 if enabled] list built from a settings record
GlobalSchedules(waterLevel) ==
    (IF waterLevel.schedule1Enabled THEN <<waterLevel.schedule1>> ELSE <<>>)
    \o (IF waterLevel.schedule2Enabled THEN <<waterLevel.schedule2>> ELSE <<>>)

\* forceSyncScheduledIrrigations as a faulty variant: the comparison with the
\* stored settings runs only when the comparison with the tank found no
\* difference
ForceSyncEitherOr(s, w, stored) ==
    LET activeSchedules == SortTimes(ActiveSchedules(w.schedules))
        current == SortTimes(s.scheduledIrrigations)
    IN IF current # activeSchedules
       THEN [s EXCEPT !.scheduledIrrigations = activeSchedules]
       ELSE IF stored = <<>> THEN [s EXCEPT !.scheduledIrrigations = current]
       ELSE LET globalSchedules == SortTimes(GlobalSchedules(stored[1].waterLevel))
            IN [s EXCEPT !.scheduledIrrigations =
                            IF current # globalSchedules THEN globalSchedules ELSE current]

\* forceSyncScheduledIrrigations.  Array.prototype.sort sorts in place, so
\* both compared arrays are left sorted whether or not they differ.
ForceSyncScheduledIrrigations(s, w, stored) ==
    LET activeSchedules == SortTimes(ActiveSchedules(w.schedules))
        list1 == IF SortTimes(s.scheduledIrrigations) # activeSchedules
                 THEN activeSchedules
                 ELSE SortTimes(s.scheduledIrrigations)
    IN IF stored = <<>> THEN [s EXCEPT !.scheduledIrrigations = list1]
       ELSE LET globalSchedules == SortTimes(GlobalSchedules(stored[1].waterLevel))
            IN [s EXCEPT !.scheduledIrrigations =
                            IF SortTimes(list1) # globalSchedules
                            THEN globalSchedules
                            ELSE SortTimes(list1)]

\* whether forceSyncScheduledIrrigations calls saveSettings: it does when one
\* of its two comparisons finds a difference
ForceSyncSaves(s, w, stored) ==
    LET activeSchedules == SortTimes(ActiveSchedules(w.schedules))
        differs1 == SortTimes(s.scheduledIrrigations) # activeSchedules
        list1 == IF differs1 THEN activeSchedules ELSE SortTimes(s.scheduledIrrigations)
    IN \/ differs1
       \/ /\ stored # <<>>
          /\ list1 # SortTimes(GlobalSchedules(stored[1].waterLevel))

\* syncScheduledIrrigations
SyncScheduledIrrigations(s, w) ==
    [s EXCEPT !.scheduledIrrigations = ActiveSchedules(w.schedules)]

\* the validity test of updateDisplay: a moisture outside [0,100] becomes 45
UpdateDisplay(s) ==
    [s EXCEPT !.currentMoisture = IF @ < 0 \/ @ > Pct(100) THEN Pct(45) ELSE @]

\* updateSettings of the soil manager.  newSettings carries each key as an
\* optional value.
SoilUpdateSettings(s, newSettings, w, stored) ==
    LET Merged == [s EXCEPT
            !.scheduledIrrigations = IF newSettings.scheduledIrrigations # <<>>
                                     THEN newSettings.scheduledIrrigations[1] ELSE @,
            !.irrigationDuration = IF newSettings.irrigationDuration # <<>>
                                   THEN newSettings.irrigationDuration[1] ELSE @,
            !.moistureThresholds = IF newSettings.moistureThresholds # <<>>
                                   THEN newSettings.moistureThresholds ELSE @,
            !.autoIrrigation = IF newSettings.autoIrrigation # <<>>
                               THEN newSettings.autoIrrigation ELSE @]
        \* the duration is written again when it parses to a number >= 5
        Validated(synced) ==
            IF newSettings.irrigationDuration # <<>>
               /\ newSettings.irrigationDuration[1] # 0
               /\ newSettings.irrigationDuration[1] >= 5
            THEN [synced EXCEPT !.irrigationDuration = newSettings.irrigationDuration[1]]
            ELSE synced
        Scheduled(s1) ==
            IF newSettings.scheduledIrrigations # <<>>
            THEN [s1 EXCEPT !.scheduledIrrigations = newSettings.scheduledIrrigations[1]]
            ELSE s1
    IN TheOnly({ UpdateDisplay(s2) :
                 s2 \in { Scheduled(s1) :
                 s1 \in { Validated(synced) :
                 synced \in { ForceSyncScheduledIrrigations(Merged, w, stored) } } } })

NoSettings ==
    [scheduledIrrigations |-> <<>>, irrigationDuration |-> <<>>,
     moistureThresholds |-> <<>>, autoIrrigation |-> <<>>]

\* syncWithSoilManager of the tank manager: the tank settings have no
\* irrigationDuration key, so `this.settings.irrigationDuration || 15' is 15
SyncWithSoilManager(s, w, stored) ==
    SoilUpdateSettings(s,
        [NoSettings EXCEPT !.scheduledIrrigations = <<ActiveSchedules(w.schedules)>>,
                           !.irrigationDuration = <<15>>],
        w, stored)

----------------------------------------------------------------------------
(* WaterVolumeManager: pure parts *)

LogCap == 100

MinutesPerDay == 24 * 60

\* schedules.filter(s => s.enabled).length
EnabledCount(schedules) == Len(ActiveSchedules(schedules))

\* whether calculateEmptyTime reaches its last lines, where it stores a date
\* and calls saveSettings: autoIrrigation is on and the daily consumption is
\* not 0 (NaN is not 0)
EmptyTimeStored(w) ==
    /\ w.autoIrrigation
    /\ \/ w.irrigationVolume = NaN
       \/ w.irrigationVolume * EnabledCount(w.schedules) # 0

\* calculateEmptyTime at minute t; the time is kept in minutes, and the date
\* computed from a NaN consumption is an invalid date
CalculateEmptyTime(w, t) ==
    IF ~EmptyTimeStored(w) THEN [w EXCEPT !.emptyTankTime = <<>>]
    ELSE IF w.irrigationVolume = NaN THEN [w EXCEPT !.emptyTankTime = <<NaN>>]
    ELSE [w EXCEPT !.emptyTankTime =
             <<t + (w.currentLevel * MinutesPerDay)
                         \div (w.irrigationVolume * EnabledCount(w.schedules))>>]

\* logIrrigation as a faulty variant: the entries beyond the cap are cut at
\* the end of the log
LogIrrigationKeepOldest(logs, w) ==
    LET pushed == Append(logs, [timestamp |-> now, volume |-> w.irrigationVolume,
                                remainingLevel |-> w.currentLevel])
    IN IF Len(pushed) > LogCap THEN SubSeq(pushed, 1, LogCap) ELSE pushed

\* logIrrigation
LogIrrigation(logs, w) ==
    LET pushed == Append(logs, [timestamp |-> now, volume |-> w.irrigationVolume,
                                remainingLevel |-> w.currentLevel])
    IN IF Len(pushed) > LogCap
       THEN SubSeq(pushed, Len(pushed) - LogCap + 1, Len(pushed))
       ELSE pushed

\* performIrrigation as a faulty variant: the test of the level against the
\* irrigation volume is missing
BasePerformIrrigationNoLevelTest(b) ==
    LET currentLevel == b.w.currentLevel
        irrigationVolume == b.w.irrigationVolume
    IN IF ~b.w.autoIrrigation THEN [b |-> b, ret |-> "false"]
       ELSE IF b.s.currentMoisture >= Pct(35) THEN [b |-> b, ret |-> "false"]
       ELSE LET w1 == CalculateEmptyTime(
                          [b.w EXCEPT !.currentLevel = Max2(0, currentLevel - irrigationVolume)],
                          now)
                b1 == [b EXCEPT !.w = w1, !.logs = LogIrrigation(b.logs, w1)]
            IN [b |-> StartIrrigation(b1), ret |-> "true"]

\* performIrrigation as written in the tank manager (before any wrapping)
BasePerformIrrigation(b) ==
    LET currentLevel == b.w.currentLevel
        irrigationVolume == b.w.irrigationVolume
    IN IF ~b.w.autoIrrigation THEN [b |-> b, ret |-> "false"]
       ELSE IF b.s.currentMoisture >= Pct(35) THEN [b |-> b, ret |-> "false"]
       ELSE IF currentLevel >= irrigationVolume
       THEN LET w1 == CalculateEmptyTime(
                          [b.w EXCEPT !.currentLevel = Max2(0, currentLevel - irrigationVolume)],
                          now)
                b1 == [b EXCEPT !.w = w1, !.logs = LogIrrigation(b.logs, w1)]
            IN [b |-> StartIrrigation(b1), ret |-> "true"]
       ELSE [b |-> b, ret |-> "false"]

\* performIrrigation as the property of the tank manager object at this
\* moment: the base method inside the wrappers of ch, innermost first.
\* "listener" is the wrapper of setupIrrigationListener, "sync" the wrapper
\* of syncWithWaterManager.
RECURSIVE PerformIrrigation(_, _)
PerformIrrigation(b, ch) ==
    IF ch = <<>> THEN BasePerformIrrigation(b)
    ELSE LET outer == ch[Len(ch)]
             inner == SubSeq(ch, 1, Len(ch) - 1)
         IN IF outer = "listener"
            THEN LET r == PerformIrrigation(b, inner)
                 IN IF r.b.w.currentLevel >= r.b.w.irrigationVolume
                    THEN [b |-> StartIrrigation(r.b), ret |-> r.ret]
                    ELSE r
            ELSE \* "sync"
                 IF b.w.currentLevel >= b.w.irrigationVolume
                 THEN [b |-> StartIrrigation(PerformIrrigation(b, inner).b),
                       ret |-> "undefined"]
                 ELSE [b |-> b, ret |-> "undefined"]

\* the setInterval callback as a faulty variant: the autoIrrigation flag is
\* not tested
ScheduleCallbackNoAutoTest(b, ch, timeString, hours, minutes, seconds) ==
    IF hours = timeString[1] /\ minutes = timeString[2] /\ seconds = 0
    THEN IF b.w.currentLevel >= b.w.irrigationVolume
         THEN IF ShouldTriggerIrrigation(b.s)
              THEN [b |-> PerformIrrigation(b, ch).b, emitted |-> TRUE, outcome |-> "performed"]
              ELSE [b |-> b, emitted |-> TRUE, outcome |-> "skipped"]
         ELSE [b |-> b, emitted |-> TRUE, outcome |-> "failed"]
    ELSE [b |-> b, emitted |-> FALSE, outcome |-> "none"]

\* the body of the setInterval callback of scheduleIrrigation(timeString),
\* run when the clock reads hours:minutes:seconds
ScheduleCallback(b, ch, timeString, hours, minutes, seconds) ==
    IF hours = timeString[1] /\ minutes = timeString[2] /\ seconds = 0
    THEN IF b.w.autoIrrigation /\ b.w.currentLevel >= b.w.irrigationVolume
         THEN IF ShouldTriggerIrrigation(b.s)
              THEN [b |-> PerformIrrigation(b, ch).b, emitted |-> TRUE, outcome |-> "performed"]
              ELSE [b |-> b, emitted |-> TRUE, outcome |-> "skipped"]
         ELSE [b |-> b, emitted |-> TRUE, outcome |-> "failed"]
    ELSE [b |-> b, emitted |-> FALSE, outcome |-> "none"]

\* updateSettings of the tank manager; newSettings is a record of the keys
\* it carries.  Returns the tank settings, the soil settings after
\* syncWithSoilManager and the rebuilt list of schedule intervals.
WaterUpdateSettings(w, s, newSettings, stored) ==
    LET present == DOMAIN newSettings
        Capped(merged) ==
            IF JsGreater(merged.currentLevel, merged.tankCapacity)
            THEN [merged EXCEPT !.currentLevel = (merged.tankCapacity * 8) \div 10]
            ELSE merged
    IN TheOnly({ [w |-> w1,
                  s |-> SyncWithSoilManager(s, w1, stored),
                  intervals |-> ActiveSchedules(w1.schedules)] :
                 w1 \in { CalculateEmptyTime(Capped(merged), now) :
                 merged \in { [k \in DOMAIN w |->
                                  IF k \in present THEN newSettings[k] ELSE w[k]] } } })

\* loadSettings of the tank manager, then initializeSystem (which calls
\* calculateEmptyTime), then syncWithGlobalSettings
WaterLoadSettings(saved, stored, global, t) ==
    LET w0 == IF saved # <<>> THEN saved[1] ELSE DefaultWater
        wl1 == IF stored # <<>>
              THEN LET wl == stored[1].waterLevel
                   IN [w0 EXCEPT
                         !.tankCapacity = IF Truthy(wl.tankCapacity) THEN wl.tankCapacity ELSE @,
                         !.irrigationVolume = IF wl.irrigationVolume # 0 THEN wl.irrigationVolume ELSE @,
                         !.lowLevelThreshold = IF wl.lowLevelThreshold # 0 THEN wl.lowLevelThreshold ELSE @,
                         !.schedules = << [time |-> wl.schedule1, enabled |-> wl.schedule1Enabled],
                                          [time |-> wl.schedule2, enabled |-> wl.schedule2Enabled] >>]
              ELSE w0
        w1 == CalculateEmptyTime(wl1, t)
        gl == global.waterLevel
        w2 == [w1 EXCEPT
                 !.tankCapacity = IF Truthy(gl.tankCapacity) THEN gl.tankCapacity ELSE @,
                 !.irrigationVolume = IF gl.irrigationVolume # 0 THEN gl.irrigationVolume ELSE @,
                 !.lowLevelThreshold = IF gl.lowLevelThreshold # 0 THEN gl.lowLevelThreshold ELSE @]
    IN [loaded |-> w1,
        synced |-> IF JsGreater(w2.currentLevel, w2.tankCapacity)
                   THEN [w2 EXCEPT !.currentLevel = (w2.tankCapacity * 8) \div 10]
                   ELSE w2]

\* loadSettings of the soil manager; the constructor's other fields keep
\* their defaults
SoilLoadSettings(saved, stored) ==
    LET s0 == IF saved # <<>>
              THEN [DefaultSoil EXCEPT
                      !.currentMoisture = IF saved[1].currentMoisture.type = "number"
                                          THEN saved[1].currentMoisture.num ELSE @,
                      !.irrigationDuration = saved[1].irrigationDuration,
                      !.weather = saved[1].weather,
                      !.isIrrigating = saved[1].isIrrigating,
                      !.scheduledIrrigations = saved[1].scheduledIrrigations]
              ELSE DefaultSoil
        s1 == IF stored # <<>>
              THEN [s0 EXCEPT
                      !.irrigationDuration = IF stored[1].irrigation.duration # 0
                                             THEN stored[1].irrigation.duration ELSE 15,
                      !.scheduledIrrigations = << stored[1].waterLevel.schedule1,
                                                  stored[1].waterLevel.schedule2 >>]
              ELSE s0
        s2 == IF s1.currentMoisture < 0 \/ s1.currentMoisture > Pct(100)
              THEN [s1 EXCEPT !.currentMoisture = Pct(45)] ELSE s1
    IN IF s2.irrigationDuration < 5 THEN [s2 EXCEPT !.irrigationDuration = 15] ELSE s2

----------------------------------------------------------------------------
(* Inputs *)

\* what the user can type into the settings form
MakeForm(s1, s2, e1, e2, mn, au, dur) ==
    [ waterLevel |-> [ tankCapacity |-> 90, irrigationVolume |-> 7, lowLevelThreshold |-> 20,
                       schedule1 |-> s1, schedule2 |-> s2,
                       schedule1Enabled |-> e1, schedule2Enabled |-> e2 ],
      soilMoisture |-> [ min |-> mn, max |-> 80, optimal |-> 65 ],
      irrigation |-> [ duration |-> dur, interval |-> 30 ],
      alerts |-> [ enabled |-> TRUE, autoIrrigation |-> au ] ]

FormDefault  == MakeForm(T0700, T1600, TRUE, TRUE, 40, TRUE, 15)
FormSameTime == MakeForm(T0700, T0700, TRUE, TRUE, 40, TRUE, 15)
FormAutoOff  == MakeForm(T0700, T1600, TRUE, TRUE, 40, FALSE, 15)
FormLowMin   == MakeForm(T0700, T1600, TRUE, FALSE, 20, TRUE, 15)
FormShort    == MakeForm(T0700, T1600, TRUE, TRUE, 40, TRUE, 5)

Forms == {FormDefault, FormSameTime, FormAutoOff, FormLowMin}

\* forms of the configuration specification: the second schedule off, a tank
\* smaller than the water in it, a duration of 20 minutes, the schedules in
\* reverse order, and the capacity field left empty
FormSmallTank == [FormDefault EXCEPT !.waterLevel.tankCapacity = 50]
FormLong      == MakeForm(T0700, T1600, TRUE, TRUE, 40, TRUE, 20)
FormSwapped   == MakeForm(T1600, T0700, TRUE, TRUE, 40, TRUE, 15)
FormBlankCapacity == [FormDefault EXCEPT !.waterLevel.tankCapacity = NaN]

ConfigForms == {FormLowMin, FormSmallTank, FormLong, FormBlankCapacity}
InitConfigStored == {<<>>, <<FormLowMin>>, <<FormSwapped>>}

\* what an earlier session can have left in localStorage
InitLevels == {5, 72}
InitMoistures == {Pct(30), Pct(37)}
InitStored == {<<>>, <<FormSameTime>>, <<FormAutoOff>>, <<FormShort>>}

\* value of 75 + Math.random() * 15
RainMoistures == {Pct(75), Pct(82), Pct(90) - 1}

\* the tank record an earlier session left behind
SavedWater(level, stored) ==
    IF stored = <<>> THEN [DefaultWater EXCEPT !.currentLevel = level]
    ELSE [DefaultWater EXCEPT
            !.currentLevel = level,
            !.autoIrrigation = stored[1].alerts.autoIrrigation,
            !.schedules = << [time |-> stored[1].waterLevel.schedule1,
                              enabled |-> stored[1].waterLevel.schedule1Enabled],
                             [time |-> stored[1].waterLevel.schedule2,
                              enabled |-> stored[1].waterLevel.schedule2Enabled] >>]

SavedSoil(moisture) == [DefaultSoil EXCEPT !.currentMoisture = JsonNumber(moisture)]

NoOp == [op |-> "init", entry |-> 0, ret |-> "none"]

\* the state an irrigation request or a settings save starts from is kept in
\* `pre' while that request is the last thing that happened; after any other
\* step `pre' is the current state
Snapshot == [water |-> water, soil |-> soil, logs |-> irrigationLogs,
             soilLogs |-> moistureLogs, timers |-> stopTimers,
             chain |-> chain, settings |-> currentSettings, stored |-> storedSettings]
Settled == [water |-> water', soil |-> soil', logs |-> irrigationLogs',
            soilLogs |-> moistureLogs', timers |-> stopTimers',
            chain |-> chain', settings |-> currentSettings', stored |-> storedSettings']

----------------------------------------------------------------------------
(* Construction.  The two managers are built by two DOMContentLoaded        *)
(* handlers; which one runs first depends on the order of the script tags.  *)
(* "water" : the tank manager first; the soil manager's constructor then    *)
(*           finds it, installs the listener wrapper and the sync wrapper,  *)
(*           and the tank manager polls for the soil manager.               *)
(* "soil"  : the soil manager first; it polls for the tank manager, whose   *)
(*           constructor finds the soil manager and syncs at once.          *)

\* the soil manager's DOMContentLoaded handler removes a persisted record
\* whose moisture is not a number before the manager is constructed
ClearCorrupted(saved) ==
    IF saved # <<>> /\ saved[1].currentMoisture.type # "number" THEN <<>> ELSE saved

\* page load at minute t from the persisted tank record, the persisted soil
\* record and the persisted settings
Startup(order, savedWater, savedSoilRecord, stored, t) ==
    LET global == IF stored # <<>> THEN stored[1] ELSE DefaultCurrentSettings
        l == WaterLoadSettings(savedWater, stored, global, t)
        w == l.synced
        s == UpdateDisplay([SoilLoadSettings(ClearCorrupted(savedSoilRecord), stored)
                               EXCEPT !.lastUpdate = t, !.lastIrrigationCheck = t])
    IN [water |-> w,
        \* calculateEmptyTime saved the settings as loadSettings left them
        savedTank |-> IF EmptyTimeStored(l.loaded) THEN <<l.loaded>> ELSE savedWater,
        intervals |-> ActiveSchedules(w.schedules),
        currentSettings |-> global,
        soil |-> IF order = "water" THEN SyncScheduledIrrigations(s, w)
                 ELSE SyncWithSoilManager(s, w, stored),
        chain |-> IF order = "water" THEN <<"listener", "sync">> ELSE <<>>,
        pending |-> IF order = "water" THEN <<"checkSoilManager">> ELSE <<"checkWaterManager">>]

Construct(order, level, moisture, stored) ==
    LET c == Startup(order, <<SavedWater(level, stored)>>, <<SavedSoil(moisture)>>, stored, 0)
    IN /\ water = c.water
       /\ savedTank = c.savedTank
       /\ scheduledIntervals = c.intervals
       /\ currentSettings = c.currentSettings
       /\ storedSettings = stored
       /\ soil = c.soil
       /\ chain = c.chain
       /\ pending = c.pending

InitCommon ==
    /\ savedSoil = <<soil>>
    /\ irrigationLogs = <<>>
    /\ moistureLogs = <<>>
    /\ stopTimers = <<>>
    /\ apiCondition = "cerah"
    /\ now = 0
    /\ half = 0
    /\ polled = [check |-> 0, fired |-> {}, fresh |-> FALSE, weather |-> 0]
    /\ nextDue = <<>>
    /\ triggerCount = <<>>
    /\ evap = [m0 |-> 0, clamped |-> FALSE]
    /\ schedLog = <<>>
    /\ ops = 0
    /\ configured = FALSE
    /\ lastOp = NoOp

Init ==
    /\ \E order \in {"water", "soil"}, level \in InitLevels,
          moisture \in InitMoistures, stored \in InitStored :
          Construct(order, level, moisture, stored)
    /\ InitCommon
    /\ pre = Snapshot

----------------------------------------------------------------------------
(* Handlers *)

\* the timer state and the configuration history, which most handlers leave
\* alone, and the chart's log, which only the log specification follows
TimerVarsUnchanged == UNCHANGED <<half, nextDue, triggerCount, evap, configured, moistureLogs>>

\* the commit as a faulty variant: performIrrigation and startIrrigation do
\* not save
CommitWithoutSave(b) ==
    /\ water' = b.w
    /\ savedTank' = savedTank
    /\ soil' = b.s
    /\ savedSoil' = savedSoil
    /\ irrigationLogs' = b.logs
    /\ stopTimers' = b.timers

\* commit the bundle a handler produced
Commit(b) ==
    /\ water' = b.w
    \* performIrrigation saves what it changed
    /\ savedTank' = IF b.w # water THEN <<b.w>> ELSE savedTank
    /\ soil' = b.s
    \* startIrrigation saves what it changed
    /\ savedSoil' = IF b.s # soil THEN <<b.s>> ELSE savedSoil
    /\ irrigationLogs' = b.logs
    /\ stopTimers' = b.timers

\* the user presses the manual irrigation button: performIrrigation()
ManualIrrigation ==
    /\ ops < MaxOps
    /\ LET r == PerformIrrigation(Bundle, chain)
       IN /\ Commit(r.b)
          /\ lastOp' = [op |-> "manual", entry |-> 0, ret |-> r.ret]
    /\ ops' = ops + 1
    /\ pre' = Snapshot
    /\ UNCHANGED <<chain, scheduledIntervals, pending, currentSettings, storedSettings,
                   apiCondition, now, polled, schedLog>>
    /\ TimerVarsUnchanged

\* what a scheduled trigger adds to schedLog
SchedRecord(i, b0, b1) ==
    [at |-> now, time |-> scheduledIntervals[i], entry |-> i,
     consumed |-> b1.w.currentLevel < b0.w.currentLevel,
     started |-> b1.s.isIrrigating /\ ~b0.s.isIrrigating]

\* the callback of schedule interval i that runs in second 0 of the current
\* minute.  An interval runs once a second, so it sees second 0 of a minute at
\* most once, and not in the minute it was created in.
ScheduleCheck(i) ==
    /\ i \in 1..Len(scheduledIntervals)
    /\ i \notin polled.fired
    /\ ~polled.fresh
    /\ scheduledIntervals[i] = <<NowHours, NowMinutes>>
    /\ LET r == ScheduleCallback(Bundle, chain, scheduledIntervals[i], NowHours, NowMinutes, 0)
           rec == SchedRecord(i, Bundle, r.b)
       IN /\ Commit(r.b)
          /\ lastOp' = [op |-> "scheduled", entry |-> i, ret |-> r.outcome]
          /\ schedLog' = IF rec.consumed \/ rec.started THEN Append(schedLog, rec) ELSE schedLog
    /\ polled' = [polled EXCEPT !.fired = @ \cup {i}]
    /\ pre' = Snapshot
    /\ UNCHANGED <<chain, scheduledIntervals, pending, currentSettings, storedSettings,
                   apiCondition, now, ops>>
    /\ TimerVarsUnchanged

\* the setTimeout callback of startIrrigation: stopIrrigation()
AutoStop ==
    /\ \E k \in 1..Len(stopTimers) :
          /\ stopTimers[k] <= now
          /\ stopTimers' = SubSeq(stopTimers, 1, k - 1) \o SubSeq(stopTimers, k + 1, Len(stopTimers))
    /\ soil' = StopIrrigation(soil)
    /\ savedSoil' = IF soil.isIrrigating THEN <<soil'>> ELSE savedSoil
    /\ lastOp' = [op |-> "autoStop", entry |-> 0, ret |-> "none"]
    /\ UNCHANGED <<water, savedTank, irrigationLogs, chain, scheduledIntervals, pending, currentSettings,
                   storedSettings, apiCondition, now, polled, schedLog, ops>>
    /\ TimerVarsUnchanged
    /\ pre' = Settled

\* the one-minute interval of startMoistureSimulation: updateMoisture()
UpdateMoisture ==
    /\ soil.lastUpdate < now
    /\ soil' = UpdateMoistureOf(soil)
    /\ savedSoil' = <<soil'>>
    /\ lastOp' = [op |-> "updateMoisture", entry |-> 0, ret |-> "none"]
    /\ UNCHANGED <<water, savedTank, irrigationLogs, chain, scheduledIntervals, stopTimers, pending,
                   currentSettings, storedSettings, apiCondition, now, polled, schedLog, ops>>
    /\ TimerVarsUnchanged
    /\ pre' = Settled

\* `includes' of an array of time strings
Includes(list, t) == \E k \in 1..Len(list) : list[k] = t

\* the one-minute interval of startScheduledIrrigationCheck:
\* checkScheduledIrrigation()
CheckScheduledIrrigation ==
    /\ polled.check < now
    /\ LET s1 == ForceSyncScheduledIrrigations(soil, water, storedSettings)
           timeSinceLastCheck == now - s1.lastIrrigationCheck
           detected == Includes(s1.scheduledIrrigations, CurrentTimeString)
                       /\ timeSinceLastCheck > 2
       IN /\ soil' = IF detected THEN [s1 EXCEPT !.lastIrrigationCheck = now] ELSE s1
          /\ savedSoil' = IF detected \/ ForceSyncSaves(soil, water, storedSettings)
                          THEN <<soil'>> ELSE savedSoil
    /\ polled' = [polled EXCEPT !.check = now]
    /\ lastOp' = [op |-> "checkScheduledIrrigation", entry |-> 0, ret |-> "none"]
    /\ UNCHANGED <<water, savedTank, irrigationLogs, chain, scheduledIntervals, stopTimers, pending,
                   currentSettings, storedSettings, apiCondition, now, schedLog, ops>>
    /\ TimerVarsUnchanged
    /\ pre' = Settled

\* the clock reaches the next minute; the callbacks due in this minute have run
AdvanceMinute ==
    /\ now < MaxNow
    /\ pending = <<>>
    /\ soil.lastUpdate = now
    /\ polled.check = now
    /\ \A k \in 1..Len(stopTimers) : stopTimers[k] > now
    /\ now' = now + 1
    /\ polled' = [polled EXCEPT !.fired = {}, !.fresh = FALSE]
    /\ lastOp' = [op |-> "advance", entry |-> 0, ret |-> "none"]
    /\ UNCHANGED <<water, savedTank, soil, savedSoil, irrigationLogs, chain, scheduledIntervals, stopTimers, pending,
                   currentSettings, storedSettings, apiCondition, schedLog, ops>>
    /\ TimerVarsUnchanged
    /\ pre' = Settled

\* the validation of saveSettings
ValidForm(f) ==
    /\ ~JsLessEq(f.waterLevel.tankCapacity, 0)
    /\ ~JsLessEq(f.waterLevel.irrigationVolume, 0)
    /\ ~JsGreater(f.waterLevel.irrigationVolume, f.waterLevel.tankCapacity)
    /\ ~JsLessEq(f.waterLevel.lowLevelThreshold, 0)
    /\ ~JsGreater(f.waterLevel.lowLevelThreshold, 100)
    /\ ~JsGreaterEq(f.soilMoisture.min, f.soilMoisture.max)
    /\ ~JsLess(f.soilMoisture.optimal, f.soilMoisture.min)
    /\ ~JsGreater(f.soilMoisture.optimal, f.soilMoisture.max)

FormSchedulesOf(cs) ==
    << [time |-> cs.waterLevel.schedule1, enabled |-> cs.waterLevel.schedule1Enabled],
       [time |-> cs.waterLevel.schedule2, enabled |-> cs.waterLevel.schedule2Enabled] >>

\* integrateAllSystems, up to the point where it schedules its 300 ms
\* callback.  Returns the tank settings, the soil settings and the intervals.
IntegrateAllSystems(w, s, cs, stored, rainMoisture) ==
    TheOnly({ [w |-> u.w,
               s |-> SetWeather(
                        SoilUpdateSettings(u.s,
                            [scheduledIrrigations |-> <<GlobalSchedules(cs.waterLevel)>>,
                             irrigationDuration |-> <<cs.irrigation.duration>>,
                             moistureThresholds |-> <<cs.soilMoisture>>,
                             autoIrrigation |-> <<cs.alerts.autoIrrigation>>],
                            u.w, stored),
                        apiCondition, rainMoisture),
               intervals |-> u.intervals] :
              u \in { WaterUpdateSettings(w, s,
                         [tankCapacity |-> cs.waterLevel.tankCapacity,
                          irrigationVolume |-> cs.waterLevel.irrigationVolume,
                          lowLevelThreshold |-> cs.waterLevel.lowLevelThreshold,
                          schedules |-> FormSchedulesOf(cs),
                          autoIrrigation |-> cs.alerts.autoIrrigation],
                         stored) } })

\* the user saves the settings form: saveSettings()
SaveSettings(f) ==
    /\ ops < MaxOps
    /\ IF ValidForm(f)
       THEN \E rainMoisture \in (IF apiCondition = "hujan" /\ soil.weather # "hujan"
                                  THEN RainMoistures ELSE {0}) :
            \E g \in {IntegrateAllSystems(water, soil, f, <<f>>, rainMoisture)} :
            \E u \in {WaterUpdateSettings(g.w, g.s,
                         [tankCapacity |-> f.waterLevel.tankCapacity,
                          irrigationVolume |-> f.waterLevel.irrigationVolume,
                          lowLevelThreshold |-> f.waterLevel.lowLevelThreshold,
                          schedules |-> FormSchedulesOf(f)],
                         <<f>>)} :
               /\ currentSettings' = f
               /\ storedSettings' = <<f>>
               /\ water' = u.w
               /\ savedTank' = <<u.w>>
               /\ scheduledIntervals' = u.intervals
               \* updateControlPanelDisplay ends with syncWithSoilManager
               /\ soil' = SyncWithSoilManager(u.s, u.w, <<f>>)
               /\ savedSoil' = <<soil'>>
               /\ pending' = pending \o <<"forceSync", "forceSync", "integrate">>
               \* scheduleIrrigations replaced the intervals
               /\ polled' = [polled EXCEPT !.fired = {}, !.fresh = TRUE]
               \* entry: the duration the soil manager's updateSettings, called
               \* by integrateAllSystems with the form's value, returned with
               /\ lastOp' = [op |-> "saveSettings", entry |-> g.s.irrigationDuration, ret |-> "saved"]
       ELSE /\ UNCHANGED <<currentSettings, storedSettings, water, savedTank, scheduledIntervals, soil,
                           savedSoil, pending, polled>>
            /\ lastOp' = [op |-> "saveSettings", entry |-> 0, ret |-> "rejected"]
    /\ ops' = ops + 1
    /\ pre' = Snapshot
    /\ UNCHANGED <<irrigationLogs, chain, stopTimers, apiCondition, now, schedLog>>
    /\ configured' = (configured \/ ValidForm(f))
    /\ UNCHANGED <<half, nextDue, triggerCount, evap, moistureLogs>>

\* a one-shot callback runs:
\*   "checkSoilManager"  the tank manager's 500 ms poll finds the soil manager
\*   "checkWaterManager" the soil manager's 500 ms poll finds the tank manager
\*   "forceSync"         the 100 ms callback of the tank manager's updateSettings
\*   "integrate"         the 300 ms callback of integrateAllSystems
RunPending ==
    /\ pending # <<>>
    /\ LET cb == Head(pending)
       IN /\ soil' = CASE cb = "checkSoilManager" -> SyncWithSoilManager(soil, water, storedSettings)
                       [] cb = "checkWaterManager" -> SyncScheduledIrrigations(soil, water)
                       [] cb = "forceSync" -> ForceSyncScheduledIrrigations(soil, water, storedSettings)
                       [] OTHER ->
                            TheOnly({ SyncWithSoilManager(s3, water, storedSettings) :
                                s3 \in { UpdateDisplay(s2) :
                                s2 \in { ForceSyncScheduledIrrigations(s1, water, storedSettings) :
                                s1 \in { SyncWithSoilManager(soil, water, storedSettings) } } } })
          /\ savedSoil' = IF cb = "forceSync" /\ ~ForceSyncSaves(soil, water, storedSettings)
                          THEN savedSoil ELSE <<soil'>>
          /\ chain' = IF cb = "checkWaterManager" THEN Append(chain, "sync") ELSE chain
          /\ lastOp' = [op |-> cb, entry |-> 0, ret |-> "none"]
    /\ pending' = Tail(pending)
    /\ UNCHANGED <<water, savedTank, irrigationLogs, scheduledIntervals, stopTimers, currentSettings,
                   storedSettings, apiCondition, now, polled, schedLog, ops>>
    /\ TimerVarsUnchanged
    /\ pre' = Settled

Next ==
    \/ ManualIrrigation
    \/ \E i \in 1..2 : ScheduleCheck(i)
    \/ AutoStop
    \/ UpdateMoisture
    \/ CheckScheduledIrrigation
    \/ AdvanceMinute
    \/ \E f \in Forms : SaveSettings(f)
    \/ RunPending

Spec == Init /\ [][Next]_vars

----------------------------------------------------------------------------
(* The schedule intervals at sub-second resolution.  scheduleIrrigation    *)
(* starts one setInterval(…, 1000) per enabled entry; its callback acts    *)
(* only when it runs in second 0 of the entry's minute.  A timer callback  *)
(* never runs early and may run late: the gap between two runs of one      *)
(* interval is 1 s or 1.5 s here.  Time advances in half seconds.          *)

HalvesPerMinute == 2 * 60
AbsHalf == now * HalvesPerMinute + half

\* the gaps, in half seconds, between two runs of a 1000 ms interval
IntervalGaps == {2, 3}

InitTimer ==
    /\ \E order \in {"water", "soil"}, moisture \in InitMoistures,
          stored \in {<<>>, <<FormSameTime>>} :
          Construct(order, 72, moisture, stored)
    /\ savedSoil = <<soil>>
    /\ irrigationLogs = <<>>
    /\ moistureLogs = <<>>
    /\ stopTimers = <<>>
    /\ apiCondition = "cerah"
    /\ now = 0
    /\ half = 0
    /\ polled = [check |-> 0, fired |-> {}, fresh |-> FALSE, weather |-> 0]
    /\ nextDue \in [1..Len(scheduledIntervals) -> IntervalGaps]
    /\ triggerCount = [i \in 1..Len(scheduledIntervals) |-> 0]
    /\ evap = [m0 |-> 0, clamped |-> FALSE]
    /\ schedLog = <<>>
    /\ ops = 0
    /\ configured = FALSE
    /\ lastOp = NoOp
    /\ pre = Snapshot

\* half a second passes in which no interval is due
TimerTick ==
    /\ now < MaxTimerMinutes
    /\ pending = <<>>
    /\ \A i \in 1..Len(nextDue) : nextDue[i] > AbsHalf
    /\ IF half + 1 = HalvesPerMinute
       THEN now' = now + 1 /\ half' = 0
       ELSE now' = now /\ half' = half + 1
    /\ lastOp' = [op |-> "timerTick", entry |-> 0, ret |-> "none"]
    /\ UNCHANGED <<water, savedTank, soil, savedSoil, irrigationLogs, chain, scheduledIntervals, stopTimers, pending,
                   currentSettings, storedSettings, apiCondition, polled, nextDue, triggerCount,
                   evap, schedLog, ops, configured, moistureLogs>>
    /\ pre' = Settled

\* the callback of schedule interval i runs, `gap' half seconds before its
\* next run
IntervalCallback(i) ==
    /\ i \in 1..Len(nextDue)
    /\ nextDue[i] = AbsHalf
    /\ \E gap \in IntervalGaps : nextDue' = [nextDue EXCEPT ![i] = AbsHalf + gap]
    /\ \E r \in {ScheduleCallback(Bundle, chain, scheduledIntervals[i],
                                  NowHours, NowMinutes, half \div 2)} :
          /\ Commit(r.b)
          /\ triggerCount' = [triggerCount EXCEPT ![i] = IF r.emitted THEN @ + 1 ELSE @]
          /\ lastOp' = [op |-> "interval", entry |-> i, ret |-> r.outcome]
    /\ pre' = Snapshot
    /\ UNCHANGED <<chain, scheduledIntervals, pending, currentSettings, storedSettings,
                   apiCondition, now, half, polled, evap, schedLog, ops, configured, moistureLogs>>

NextTimer ==
    \/ TimerTick
    \/ \E i \in 1..2 : IntervalCallback(i)
    \/ RunPending

SpecTimer == InitTimer /\ [][NextTimer]_vars

----------------------------------------------------------------------------
(* Natural evaporation on its own: sunny weather, no irrigation, and the   *)
(* one-minute interval of updateMoisture running at arbitrary minutes (a   *)
(* suspended page runs the callback once for the whole pause).             *)

EvapMoistures == {Pct(37), Pct(45)}

InitEvap ==
    /\ \E moisture \in EvapMoistures :
          /\ Construct("water", 72, moisture, <<>>)
          /\ evap = [m0 |-> moisture, clamped |-> FALSE]
    /\ savedSoil = <<soil>>
    /\ irrigationLogs = <<>>
    /\ moistureLogs = <<>>
    /\ stopTimers = <<>>
    /\ apiCondition = "cerah"
    /\ now = 0
    /\ half = 0
    /\ polled = [check |-> 0, fired |-> {}, fresh |-> FALSE, weather |-> 0]
    /\ nextDue = <<>>
    /\ triggerCount = <<>>
    /\ schedLog = <<>>
    /\ ops = 0
    /\ configured = FALSE
    /\ lastOp = NoOp
    /\ pre = Snapshot

\* a minute passes
EvapAdvance ==
    /\ now < MaxEvapMinutes
    /\ now' = now + 1
    /\ UNCHANGED <<water, savedTank, soil, savedSoil, irrigationLogs, chain, scheduledIntervals, stopTimers, pending,
                   currentSettings, storedSettings, apiCondition, half, polled, nextDue,
                   triggerCount, evap, schedLog, ops, configured, moistureLogs, lastOp, pre>>

\* updateMoisture runs; evap.clamped records that some run covered more than
\* the 60 minutes updateMoisture accounts for
EvapTick ==
    /\ soil.lastUpdate < now
    /\ soil' = UpdateMoistureOf(soil)
    /\ savedSoil' = <<soil'>>
    /\ evap' = [evap EXCEPT !.clamped = @ \/ (now - soil.lastUpdate > 60)]
    /\ UNCHANGED <<water, savedTank, irrigationLogs, chain, scheduledIntervals, stopTimers, pending,
                   currentSettings, storedSettings, apiCondition, now, half, polled, nextDue,
                   triggerCount, schedLog, ops, configured, moistureLogs, lastOp, pre>>

NextEvap == EvapAdvance \/ EvapTick

SpecEvap == InitEvap /\ [][NextEvap]_vars

----------------------------------------------------------------------------
(* The soil manager's life: weather, rain, manual emptying and page        *)
(* reloads, next to the ticks and the scheduled irrigation.  The new       *)
(* handlers leave in `pre' the state they started from.                    *)

\* the persisted soil record as the next page load reads it.  `corruption'
\* is what happened to its moisture entry in storage between the two loads.
Corruptions == {"none", "string", "null", "high", "negative"}

Persisted(saved, corruption) ==
    [saved EXCEPT !.currentMoisture =
        CASE corruption = "string"   -> JsonString
          [] corruption = "null"     -> JsonNull
          [] corruption = "high"     -> JsonNumber(Pct(150))
          [] corruption = "negative" -> JsonNumber(0 - Pct(5))
          [] OTHER                   -> JsonNumber(@)]

\* the order of the two script tags, as the installed wrappers show it
LoadOrder == IF chain # <<>> /\ chain[1] = "listener" THEN "water" ELSE "soil"

SoilLifeUnchanged ==
    UNCHANGED <<water, savedTank, irrigationLogs, chain, scheduledIntervals, stopTimers, pending,
                currentSettings, storedSettings, now, schedLog>>

\* a weather button: soilMoistureManager.setWeather(weather)
SetWeatherButton(weather) ==
    /\ ops < MaxSoilOps
    /\ \E rainMoisture \in (IF weather = "hujan" /\ soil.weather # "hujan"
                            THEN RainMoistures ELSE {0}) :
          soil' = SetWeather(soil, weather, rainMoisture)
    /\ savedSoil' = <<soil'>>
    /\ ops' = ops + 1
    /\ lastOp' = [op |-> "setWeather", entry |-> 0, ret |-> weather]
    /\ pre' = Snapshot
    /\ UNCHANGED <<apiCondition, polled>>
    /\ SoilLifeUnchanged
    /\ TimerVarsUnchanged

\* the weather feed delivers a condition: processWeatherData
WeatherFeed(condition) ==
    /\ ops < MaxSoilOps
    /\ apiCondition' = condition
    /\ IF soil.weather # condition
       THEN /\ \E rainMoisture \in (IF condition = "hujan" THEN RainMoistures ELSE {0}) :
                  soil' = SetWeather(soil, condition, rainMoisture)
            /\ savedSoil' = <<soil'>>
       ELSE UNCHANGED <<soil, savedSoil>>
    /\ ops' = ops + 1
    /\ lastOp' = [op |-> "weatherFeed", entry |-> 0, ret |-> condition]
    /\ pre' = Snapshot
    /\ UNCHANGED polled
    /\ SoilLifeUnchanged
    /\ TimerVarsUnchanged

\* the one-minute interval of setupWeatherListener
WeatherListener ==
    /\ polled.weather < now
    /\ IF apiCondition # soil.weather
       THEN /\ soil' = [soil EXCEPT !.weather = apiCondition]
            /\ savedSoil' = <<soil'>>
       ELSE UNCHANGED <<soil, savedSoil>>
    /\ polled' = [polled EXCEPT !.weather = now]
    /\ lastOp' = [op |-> "weatherListener", entry |-> 0, ret |-> apiCondition]
    /\ pre' = Snapshot
    /\ UNCHANGED <<apiCondition, ops>>
    /\ SoilLifeUnchanged
    /\ TimerVarsUnchanged

\* emptyMoisture
EmptyMoisture ==
    /\ ops < MaxSoilOps
    /\ soil' = UpdateDisplay([soil EXCEPT !.currentMoisture = 0,
                                          !.moistureDecreaseAccumulator = 0])
    /\ savedSoil' = <<soil'>>
    /\ ops' = ops + 1
    /\ lastOp' = [op |-> "emptyMoisture", entry |-> 0, ret |-> "none"]
    /\ pre' = Snapshot
    /\ UNCHANGED <<apiCondition, polled>>
    /\ SoilLifeUnchanged
    /\ TimerVarsUnchanged

\* the page is reloaded: every timer of the old page is gone, both managers
\* are constructed again from localStorage
Reload(corruption) ==
    /\ ops < MaxSoilOps
    /\ \E c \in { Startup(LoadOrder, savedTank, <<Persisted(savedSoil[1], corruption)>>,
                          storedSettings, now) } :
          /\ water' = c.water
          /\ savedTank' = c.savedTank
          /\ scheduledIntervals' = c.intervals
          /\ currentSettings' = c.currentSettings
          /\ soil' = c.soil
          /\ chain' = c.chain
          /\ pending' = c.pending
    /\ savedSoil' = <<soil'>>
    /\ stopTimers' = <<>>
    /\ apiCondition' = "cerah"
    /\ polled' = [check |-> now, fired |-> {}, fresh |-> TRUE, weather |-> now]
    /\ ops' = ops + 1
    /\ lastOp' = [op |-> "reload", entry |-> 0, ret |-> corruption]
    /\ pre' = Snapshot
    /\ UNCHANGED <<irrigationLogs, storedSettings, now, schedLog>>
    /\ TimerVarsUnchanged

\* the clock reaches the next minute; the callbacks due in this minute have run
SoilAdvance(limit) ==
    /\ now < limit
    /\ pending = <<>>
    /\ soil.lastUpdate = now
    /\ polled.weather = now
    /\ \A k \in 1..Len(stopTimers) : stopTimers[k] > now
    /\ now' = now + 1
    /\ polled' = [polled EXCEPT !.fired = {}, !.fresh = FALSE]
    /\ lastOp' = [op |-> "advance", entry |-> 0, ret |-> "none"]
    /\ UNCHANGED <<water, savedTank, soil, savedSoil, irrigationLogs, chain, scheduledIntervals,
                   stopTimers, pending, currentSettings, storedSettings, apiCondition,
                   schedLog, ops>>
    /\ TimerVarsUnchanged
    /\ pre' = Settled

Weathers == {"cerah", "mendung", "hujan"}

InitSoil ==
    \* the stored settings ask for a duration of 5 minutes
    /\ \E order \in {"water", "soil"} : Construct(order, 72, Pct(30), <<FormShort>>)
    /\ InitCommon
    /\ pre = Snapshot

NextSoil ==
    \/ ManualIrrigation
    \/ \E i \in 1..2 : ScheduleCheck(i)
    \/ AutoStop
    \/ UpdateMoisture
    \/ WeatherListener
    \/ SoilAdvance(MaxSoilNow)
    \/ \E weather \in Weathers : SetWeatherButton(weather)
    \/ \E condition \in Weathers : WeatherFeed(condition)
    \/ EmptyMoisture
    \/ \E corruption \in Corruptions : Reload(corruption)
    \/ RunPending

SpecSoil == InitSoil /\ [][NextSoil]_vars

\* The same page over a whole irrigation: the schedule, the ticks, the
\* auto-stop timer and reloads of the intact record.
NextLong ==
    \/ \E i \in 1..2 : ScheduleCheck(i)
    \/ AutoStop
    \/ UpdateMoisture
    \/ WeatherListener
    \/ SoilAdvance(MaxLongNow)
    \/ Reload("none")
    \/ RunPending

SpecLong == InitSoil /\ [][NextLong]_vars

----------------------------------------------------------------------------
(* Configuration changes: the settings form, the reset button, and the     *)
(* tank's empty and refill buttons, next to the timers of Spec.  The auto- *)
(* stop timer of an irrigation is due 15 minutes after its start, later    *)
(* than the minutes explored here.                                         *)

\* the user confirms the reset button: resetSettings().  The defaults are
\* not written to localStorage.
ResetSettings ==
    /\ ops < MaxOps
    /\ \E rainMoisture \in (IF apiCondition = "hujan" /\ soil.weather # "hujan"
                            THEN RainMoistures ELSE {0}) :
       \* updateSettingsUI ends with updateControlPanelDisplay
       \E s1 \in {SyncWithSoilManager(soil, water, storedSettings)} :
       \E g \in {IntegrateAllSystems(water, s1, DefaultCurrentSettings, storedSettings,
                                     rainMoisture)} :
          /\ water' = g.w
          /\ savedTank' = <<g.w>>
          /\ scheduledIntervals' = g.intervals
          /\ soil' = g.s
          /\ savedSoil' = <<g.s>>
    /\ currentSettings' = DefaultCurrentSettings
    /\ pending' = pending \o <<"forceSync", "integrate">>
    /\ polled' = [polled EXCEPT !.fired = {}, !.fresh = TRUE]
    /\ ops' = ops + 1
    /\ lastOp' = [op |-> "resetSettings", entry |-> 0, ret |-> "none"]
    /\ pre' = Snapshot
    /\ UNCHANGED <<irrigationLogs, chain, stopTimers, storedSettings, apiCondition, now, schedLog>>
    /\ configured' = TRUE
    /\ UNCHANGED <<half, nextDue, triggerCount, evap, moistureLogs>>

TankButtonUnchanged ==
    UNCHANGED <<soil, savedSoil, irrigationLogs, chain, scheduledIntervals, stopTimers,
                pending, currentSettings, storedSettings, apiCondition, now, polled,
                schedLog>>

\* emptyTank
EmptyTank ==
    /\ ops < MaxOps
    /\ water' = CalculateEmptyTime([water EXCEPT !.currentLevel = 0], now)
    /\ savedTank' = <<water'>>
    /\ ops' = ops + 1
    /\ lastOp' = [op |-> "emptyTank", entry |-> 0, ret |-> "none"]
    /\ pre' = Snapshot
    /\ TankButtonUnchanged
    /\ TimerVarsUnchanged

\* refillTank
RefillTank ==
    /\ ops < MaxOps
    /\ LET tankCapacity == IF water.tankCapacity # NaN THEN water.tankCapacity ELSE 90
       IN water' = CalculateEmptyTime([water EXCEPT !.currentLevel = tankCapacity], now)
    /\ savedTank' = <<water'>>
    /\ ops' = ops + 1
    /\ lastOp' = [op |-> "refillTank", entry |-> 0, ret |-> "none"]
    /\ pre' = Snapshot
    /\ TankButtonUnchanged
    /\ TimerVarsUnchanged

\* AdvanceMinute within the minutes explored here
ConfigAdvance == now < MaxConfigNow /\ AdvanceMinute

InitConfig ==
    /\ \E order \in {"water", "soil"}, stored \in InitConfigStored :
          Construct(order, 72, Pct(30), stored)
    /\ InitCommon
    /\ pre = Snapshot

NextConfig ==
    \/ \E f \in ConfigForms : SaveSettings(f)
    \/ ResetSettings
    \/ EmptyTank
    \/ RefillTank
    \/ RunPending
    \/ \E i \in 1..2 : ScheduleCheck(i)
    \/ UpdateMoisture
    \/ CheckScheduledIrrigation
    \/ ConfigAdvance

SpecConfig == InitConfig /\ [][NextConfig]_vars

----------------------------------------------------------------------------
(* The validation of the settings form: saves of forms that break one of   *)
(* its rules, of a form with an empty field, and of a form it accepts.     *)

FormZeroCapacity  == [FormDefault EXCEPT !.waterLevel.tankCapacity = 0]
FormBigVolume     == [FormDefault EXCEPT !.waterLevel.irrigationVolume = 95]
FormZeroVolume    == [FormDefault EXCEPT !.waterLevel.irrigationVolume = 0]
FormThreshold101  == [FormDefault EXCEPT !.waterLevel.lowLevelThreshold = 101]
FormMinAboveMax   == MakeForm(T0700, T1600, TRUE, TRUE, 80, TRUE, 15)
FormOptimalBelowMin == MakeForm(T0700, T1600, TRUE, TRUE, 70, TRUE, 15)
FormBlankVolume   == [FormDefault EXCEPT !.waterLevel.irrigationVolume = NaN]

ValidateForms == {FormZeroCapacity, FormBigVolume, FormZeroVolume, FormThreshold101,
                  FormMinAboveMax, FormOptimalBelowMin, FormBlankCapacity, FormBlankVolume,
                  FormLowMin}

NextValidate ==
    \/ \E f \in ValidateForms : SaveSettings(f)
    \/ RunPending
    \/ \E i \in 1..2 : ScheduleCheck(i)
    \/ UpdateMoisture
    \/ CheckScheduledIrrigation
    \/ ConfigAdvance

SpecValidate == InitConfig /\ [][NextValidate]_vars

----------------------------------------------------------------------------
(* What is in localStorage after each handler: the requests, the timers,   *)
(* the weather and emptying buttons, the tank buttons and a settings save, *)
(* on a page whose stored settings ask for a short irrigation or list the  *)
(* schedules latest first.                                                 *)

InitPersistStored == {<<FormShort>>, <<FormSwapped>>}

InitPersist ==
    /\ \E order \in {"water", "soil"}, stored \in InitPersistStored :
          Construct(order, 72, Pct(30), stored)
    /\ InitCommon
    /\ pre = Snapshot

NextPersist ==
    \/ ManualIrrigation
    \/ \E i \in 1..2 : ScheduleCheck(i)
    \/ AutoStop
    \/ UpdateMoisture
    \/ CheckScheduledIrrigation
    \/ AdvanceMinute
    \/ \E weather \in Weathers : SetWeatherButton(weather)
    \/ EmptyMoisture
    \/ EmptyTank
    \/ RefillTank
    \/ SaveSettings(FormLowMin)
    \/ RunPending

SpecPersist == InitPersist /\ [][NextPersist]_vars

----------------------------------------------------------------------------
(* The tank on its own: consumption, the tank buttons, settings saves that *)
(* switch the schedules or automatic irrigation off, the reset button and  *)
(* page loads.                                                             *)

FormNoSchedules == MakeForm(T0700, T1600, FALSE, FALSE, 40, TRUE, 15)

TankForms == {FormSmallTank, FormNoSchedules, FormAutoOff}

\* what an earlier session left in localStorage: nothing but the tank record;
\* settings with automatic irrigation off; or settings for a tank of 50 l
\* next to the record of a tank of 90 l that was refilled after a reset
InitTankStorage ==
    { [level |-> 72, stored |-> <<>>],
      [level |-> 72, stored |-> <<FormAutoOff>>],
      [level |-> 90, stored |-> <<FormSmallTank>>] }

InitTank ==
    /\ \E order \in {"water", "soil"}, st \in InitTankStorage :
          Construct(order, st.level, Pct(30), st.stored)
    /\ InitCommon
    /\ pre = Snapshot

NextTank ==
    \/ ManualIrrigation
    \/ \E i \in 1..2 : ScheduleCheck(i)
    \/ EmptyTank
    \/ RefillTank
    \/ \E f \in TankForms : SaveSettings(f)
    \/ ResetSettings
    \/ Reload("none")
    \/ RunPending
    \/ UpdateMoisture
    \/ CheckScheduledIrrigation
    \/ ConfigAdvance

SpecTank == InitTank /\ [][NextTank]_vars

----------------------------------------------------------------------------
(* The next-schedule display of both managers over one day, for schedules  *)
(* at midnight, in the morning, in the afternoon and in the last minute of *)
(* the day, each enabled or not.                                           *)

MinutesOf(time) == time[1] * 60 + time[2]

\* the entries as { time, minutes } objects, sorted by minutes
RECURSIVE SortByMinutes(_)
SortByMinutes(times) ==
    IF times = <<>> THEN <<>>
    ELSE LET rest == SortByMinutes(Tail(times))
             m == MinutesOf(Head(times))
             before == SelectSeq(rest, LAMBDA x : x.minutes <= m)
             after == SelectSeq(rest, LAMBDA x : x.minutes > m)
         IN before \o <<[time |-> Head(times), minutes |-> m]>> \o after

\* the choice of updateNextScheduleDisplay as a faulty variant: a slot at the
\* current minute counts as a slot of today
NextSlotAtOrAfter(times, currentTime) ==
    LET enabledSchedules == SortByMinutes(times)
        later == SelectSeq(enabledSchedules, LAMBDA x : x.minutes >= currentTime)
    IN IF enabledSchedules = <<>> THEN "none"
       ELSE IF later # <<>> THEN ToString(later[1].minutes)
       ELSE ToString(enabledSchedules[1].minutes)

\* the choice of updateNextScheduleDisplay: the first entry after the current
\* minute, or else the first entry; the result is the text shown, here the
\* entry's minute of the day
NextSlot(times, currentTime) ==
    LET enabledSchedules == SortByMinutes(times)
        later == SelectSeq(enabledSchedules, LAMBDA x : x.minutes > currentTime)
    IN IF enabledSchedules = <<>> THEN "none"
       ELSE IF later # <<>> THEN ToString(later[1].minutes)
       ELSE ToString(enabledSchedules[1].minutes)

\* getTimezoneOffset() of the browser: WITA (UTC+8) and WIB (UTC+7)
TimezoneOffsets == {0 - 480, 0 - 420}

\* the tank manager's current time: the wall clock converted to WITA
WitaMinutes(timezoneOffset) == (Clock + timezoneOffset + 8 * 60) % MinutesPerDay

SlotUnchanged ==
    UNCHANGED <<water, savedTank, soil, savedSoil, irrigationLogs, chain, scheduledIntervals,
                stopTimers, pending, currentSettings, storedSettings, apiCondition, now,
                polled, schedLog, ops>>

\* updateNextScheduleDisplay of the tank manager
WaterNextScheduleDisplay ==
    /\ \E timezoneOffset \in TimezoneOffsets :
          lastOp' = [op |-> "waterNextSchedule", entry |-> WitaMinutes(timezoneOffset),
                     ret |-> NextSlot(ActiveSchedules(water.schedules),
                                      WitaMinutes(timezoneOffset))]
    /\ pre' = Snapshot
    /\ SlotUnchanged
    /\ TimerVarsUnchanged

\* updateNextScheduleDisplay of the soil manager
SoilNextScheduleDisplay ==
    /\ lastOp' = [op |-> "soilNextSchedule", entry |-> Clock,
                  ret |-> NextSlot(soil.scheduledIrrigations, Clock)]
    /\ pre' = Snapshot
    /\ SlotUnchanged
    /\ TimerVarsUnchanged

\* a minute passes
SlotAdvance ==
    /\ now < MaxSlotNow
    /\ now' = now + 1
    /\ lastOp' = [op |-> "advance", entry |-> 0, ret |-> "none"]
    /\ UNCHANGED <<water, savedTank, soil, savedSoil, irrigationLogs, chain, scheduledIntervals,
                   stopTimers, pending, currentSettings, storedSettings, apiCondition,
                   polled, schedLog, ops, pre>>
    /\ TimerVarsUnchanged

SlotTimes == {<<0, 0>>, T0700, T1600, <<23, 59>>}

InitSlot ==
    /\ \E s1 \in SlotTimes, s2 \in SlotTimes, e1 \in BOOLEAN, e2 \in BOOLEAN :
          Construct("water", 72, Pct(30), <<MakeForm(s1, s2, e1, e2, 40, TRUE, 15)>>)
    /\ InitCommon
    /\ pre = Snapshot

NextSlotDisplay ==
    \/ WaterNextScheduleDisplay
    \/ SoilNextScheduleDisplay
    \/ SlotAdvance

SpecSlot == InitSlot /\ [][NextSlotDisplay]_vars

----------------------------------------------------------------------------
(* The display timers and the status read, next to the configuration       *)
(* changes and the timers of SpecConfig.  They run at any moment inside a  *)
(* minute.                                                                 *)

DisplayUnchanged ==
    UNCHANGED <<water, savedTank, irrigationLogs, chain, scheduledIntervals, stopTimers, pending,
                currentSettings, storedSettings, apiCondition, now, polled, schedLog, ops>>

\* the 15-second interval of startMoistureSimulation: updateDisplay()
DisplayRefresh ==
    /\ soil' = UpdateDisplay(soil)
    /\ savedSoil' = IF soil' # soil THEN <<soil'>> ELSE savedSoil
    /\ lastOp' = [op |-> "updateDisplay", entry |-> 0, ret |-> "none"]
    /\ pre' = Snapshot
    /\ DisplayUnchanged
    /\ TimerVarsUnchanged

\* getCurrentMoistureStatus(): the moisture is reset to 45 when it is not a
\* number, which the moisture of a constructed manager always is
GetCurrentMoistureStatus ==
    /\ soil' = soil
    /\ savedSoil' = savedSoil
    /\ lastOp' = [op |-> "getCurrentMoistureStatus", entry |-> 0, ret |-> "none"]
    /\ pre' = Snapshot
    /\ DisplayUnchanged
    /\ TimerVarsUnchanged

\* the 30-second interval of window.onload: updateSoilMoistureMetrics(), then
\* the schedule comparison.  soilSchedules.sort() sorts the soil manager's own
\* array in place; the tank's list is a copy made by filter and map.
MetricsRefresh ==
    /\ \E s1 \in {UpdateDisplay(soil)} :
       \E s2 \in {[s1 EXCEPT !.scheduledIrrigations = SortTimes(@)]} :
          IF SortTimes(ActiveSchedules(water.schedules)) # s2.scheduledIrrigations
          THEN /\ soil' = ForceSyncScheduledIrrigations(s2, water, storedSettings)
               /\ savedSoil' = IF ForceSyncSaves(s2, water, storedSettings) \/ s1 # soil
                               THEN <<soil'>> ELSE savedSoil
          ELSE /\ soil' = s2
               /\ savedSoil' = IF s1 # soil THEN <<s1>> ELSE savedSoil
    /\ lastOp' = [op |-> "metricsRefresh", entry |-> 0, ret |-> "none"]
    /\ pre' = Snapshot
    /\ DisplayUnchanged
    /\ TimerVarsUnchanged

NextDisplay ==
    \/ DisplayRefresh
    \/ GetCurrentMoistureStatus
    \/ MetricsRefresh
    \/ \E f \in ConfigForms : SaveSettings(f)
    \/ ResetSettings
    \/ EmptyTank
    \/ RefillTank
    \/ RunPending
    \/ \E i \in 1..2 : ScheduleCheck(i)
    \/ UpdateMoisture
    \/ CheckScheduledIrrigation
    \/ ConfigAdvance

SpecDisplay == InitConfig /\ [][NextDisplay]_vars

----------------------------------------------------------------------------
(* Properties.  A request is a step of ManualIrrigation or ScheduleCheck;  *)
(* in the state right after it `lastOp' names it and `pre' is the state it *)
(* started from.                                                           *)

Request == lastOp.op \in {"manual", "scheduled"}
Consumed == water.currentLevel < pre.water.currentLevel
ConsumedVolume == water.currentLevel = pre.water.currentLevel - pre.water.irrigationVolume
Started == soil.isIrrigating /\ ~pre.soil.isIrrigating
SufficientWater == pre.water.currentLevel >= pre.water.irrigationVolume

\* C1: consumption and soil-irrigation start are atomic per request.  Every
\* manual or scheduled request made while no irrigation is active either
\* lowers the tank level by irrigationVolume and starts soil irrigation, or
\* does neither, whatever the order in which the managers were built and
\* performIrrigation was wrapped.
C1_AtomicConsumeAndStart ==
    (Request /\ ~pre.soil.isIrrigating) =>
        \/ ConsumedVolume /\ Started
        \/ ~Consumed /\ ~Started

\* C2: a manual or scheduled request made while soil irrigation is active
\* leaves the tank level unchanged.
C2_NoConsumptionWhileIrrigating ==
    (Request /\ pre.soil.isIrrigating) => water.currentLevel = pre.water.currentLevel

\* C3: a manual or scheduled request made with currentLevel < irrigationVolume
\* fails and leaves the tank (level, log) and the soil (moisture,
\* isIrrigating, start time, accumulator, pending auto-stop) unchanged.
C3_InsufficientWaterChangesNothing ==
    (Request /\ ~SufficientWater) =>
        /\ lastOp.ret \notin {"true", "performed"}
        /\ water = pre.water
        /\ irrigationLogs = pre.logs
        /\ soil = pre.soil
        /\ stopTimers = pre.timers

\* a manual request at level 5, volume 7 that every other gate would let pass
C3_Witness ==
    /\ lastOp.op = "manual"
    /\ pre.water.currentLevel = 5
    /\ pre.water.irrigationVolume = 7
    /\ pre.water.autoIrrigation
    /\ pre.soil.currentMoisture < Pct(35)
    /\ ~pre.soil.isIrrigating

\* C4: once the clock has run through the minute 07:00, every interval of an
\* entry set to 07:00 has emitted its trigger exactly once, whatever the
\* timing of the interval callbacks.
C4_TriggerExactlyOncePerSlot ==
    (now >= 2) =>
        \A i \in 1..Len(scheduledIntervals) :
            scheduledIntervals[i] = T0700 => triggerCount[i] = 1

\* C5: of the scheduled triggers that fall within two minutes of each other
\* (those of two entries set to the same time among them) at most one
\* consumes tank water and at most one starts soil irrigation.
C5_SameTimeEntriesIrrigateOnce ==
    \A j, k \in 1..Len(schedLog) :
        (j < k /\ schedLog[k].at - schedLog[j].at < 2) =>
            /\ ~(schedLog[j].consumed /\ schedLog[k].consumed)
            /\ ~(schedLog[j].started /\ schedLog[k].started)

\* both callbacks of two entries set to 07:00 have run; the first irrigated,
\* the second was skipped
C5_Witness ==
    /\ scheduledIntervals = <<T0700, T0700>>
    /\ polled.fired = {1, 2}
    /\ lastOp.op = "scheduled"
    /\ lastOp.ret = "skipped"
    /\ Len(schedLog) = 1
    /\ schedLog[1].consumed
    /\ schedLog[1].started

\* C6: a scheduled trigger that fires at a moisture of 35 or more changes
\* neither the tank level nor isIrrigating, whatever moistureThresholds.min is.
C6_ScheduledSkippedWhenMoist ==
    (lastOp.op = "scheduled" /\ pre.soil.currentMoisture >= Pct(35)) =>
        /\ water.currentLevel = pre.water.currentLevel
        /\ soil.isIrrigating = pre.soil.isIrrigating

\* C7: a manual request at a moisture of 35 or more, with automatic
\* irrigation enabled, sufficient water and no irrigation active, consumes
\* irrigationVolume and starts soil irrigation.
C7_ManualExecutesWhenMoist ==
    (/\ lastOp.op = "manual"
     /\ pre.soil.currentMoisture >= Pct(35)
     /\ pre.water.autoIrrigation
     /\ SufficientWater
     /\ ~pre.soil.isIrrigating) =>
        ConsumedVolume /\ Started

\* C8: with autoIrrigation disabled, a scheduled trigger at its slot time
\* leaves the tank level unchanged and does not start soil irrigation.
C8_ScheduledGatedByAutoIrrigation ==
    (lastOp.op = "scheduled" /\ ~pre.water.autoIrrigation) =>
        /\ lastOp.ret = "failed"
        /\ water.currentLevel = pre.water.currentLevel
        /\ soil.isIrrigating = pre.soil.isIrrigating

\* a scheduled trigger with autoIrrigation disabled that every other gate
\* would let pass
C8_Witness ==
    /\ lastOp.op = "scheduled"
    /\ ~pre.water.autoIrrigation
    /\ SufficientWater
    /\ pre.soil.currentMoisture < Pct(35)
    /\ ~pre.soil.isIrrigating
    /\ pre.chain # <<>>

\* C9: a manual request with autoIrrigation disabled, a moisture below 35,
\* sufficient water and no irrigation active consumes irrigationVolume and
\* starts soil irrigation.
C9_ManualIgnoresAutoIrrigation ==
    (/\ lastOp.op = "manual"
     /\ ~pre.water.autoIrrigation
     /\ pre.soil.currentMoisture < Pct(35)
     /\ SufficientWater
     /\ ~pre.soil.isIrrigating) =>
        ConsumedVolume /\ Started

\* C10 as stated: in sunny weather with no irrigation and the accumulator
\* at 0, once updateMoisture has accounted for n minutes the moisture is
\* floor(n / 15) percent lower, however the n minutes were split into runs.
C10_AccumulatorEquivalence ==
    (soil.lastUpdate = now) => soil.currentMoisture = evap.m0 - Pct(now \div 15)

\* C10 amended: the same, provided no single run of updateMoisture covered
\* more than 60 minutes.
C10_AccumulatorEquivalenceUpTo60 ==
    (soil.lastUpdate = now /\ ~evap.clamped) =>
        soil.currentMoisture = evap.m0 - Pct(now \div 15)

\* 75 minutes accounted for in runs of at most 60 minutes each: five decreases
C10_Witness ==
    /\ now = 75
    /\ soil.lastUpdate = now
    /\ ~evap.clamped
    /\ soil.moistureDecreaseAccumulator = 0
    /\ soil.currentMoisture = evap.m0 - Pct(5)

----------------------------------------------------------------------------
(* Properties of the soil manager's life (SpecSoil, SpecLong) *)

WeatherOps == {"setWeather", "weatherFeed", "weatherListener"}

\* C11: in every reachable state the moisture is a percentage, 0 <= moisture
\* <= 100: after ticks, irrigation start and stop, rain, weather changes,
\* manual emptying, settings updates and reloads.
C11_MoistureInRange ==
    /\ soil.currentMoisture >= 0
    /\ soil.currentMoisture <= Pct(100)

\* a tick during an irrigation on soil that rain has soaked: the tick brings
\* the moisture down to the irrigation ceiling of 40
C11_Witness ==
    /\ lastOp.op = "updateMoisture"
    /\ soil.isIrrigating
    /\ soil.weather = "hujan"
    /\ soil.currentMoisture = Pct(40)

\* C12: in every reachable state, also right after a reload, an active
\* irrigation has a start time and a target moisture between 25 and 40.
C12_IrrigatingHasStartAndTarget ==
    soil.isIrrigating =>
        /\ soil.irrigationStartTime # <<>>
        /\ soil.irrigationTargetMoisture >= Pct(25)
        /\ soil.irrigationTargetMoisture <= Pct(40)

\* C13: every irrigation that starts ends once its duration has elapsed,
\* given that pending timers fire; also when the page is reloaded while the
\* irrigation is active.  The clock passes a minute only after the timers
\* due in it have fired, so an irrigation that a scheduled trigger started
\* at minute `at' is over in every state later than at + irrigationDuration.
C13_IrrigationEndsAfterDuration ==
    \A k \in 1..Len(schedLog) :
        schedLog[k].started /\ soil.isIrrigating =>
            now <= schedLog[k].at + soil.irrigationDuration

\* the handler that ran last called applyRainEffect
RainApplied ==
    /\ lastOp.op \in {"setWeather", "weatherFeed"}
    /\ lastOp.ret = "hujan"
    /\ pre.soil.weather # "hujan"

\* C17: the rain effect applies from any state, also during an irrigation:
\* right after it the moisture is between 75 and 90 and the evaporation
\* accumulator is 0.
C17_RainSetsMoistureAndAccumulator ==
    RainApplied =>
        /\ soil.currentMoisture >= Pct(75)
        /\ soil.currentMoisture <= Pct(90)
        /\ soil.moistureDecreaseAccumulator = 0

\* rain falls during an irrigation
C17_Witness ==
    /\ RainApplied
    /\ pre.soil.isIrrigating
    /\ soil.isIrrigating

\* C18: a reload from a persisted soil record whose moisture is corrupted (a
\* string such as "NaN", another non-number, or a number outside [0,100])
\* completes the startup, and the moisture after it is 45.
C18_CorruptedMoistureReloadsAs45 ==
    lastOp.op = "reload" /\ lastOp.ret # "none" =>
        /\ soil.currentMoisture = Pct(45)
        /\ soil.lastUpdate = now
        /\ pending # <<>>

\* the record of a soil at another moisture than 45 comes back with a string
\* as its moisture
C18_Witness ==
    /\ lastOp.op = "reload"
    /\ lastOp.ret = "string"
    /\ pre.soil.currentMoisture # Pct(45)
    /\ soil.currentMoisture = Pct(45)

\* C19: the rain effect is applied exactly on the transitions into rain,
\* whichever handler makes the transition: the manual setWeather, the weather
\* feed or the periodic weather listener.  Setting rain while it rains does
\* not apply it again.  When a weather handler has turned the weather to rain
\* the moisture is between 75 and 90 and the accumulator is 0; when it has
\* not, moisture and accumulator are what they were.
C19_RainEffectExactlyOnTransition ==
    lastOp.op \in WeatherOps =>
        IF pre.soil.weather # "hujan" /\ soil.weather = "hujan"
        THEN /\ soil.currentMoisture >= Pct(75)
             /\ soil.currentMoisture <= Pct(90)
             /\ soil.moistureDecreaseAccumulator = 0
        ELSE /\ soil.currentMoisture = pre.soil.currentMoisture
             /\ soil.moistureDecreaseAccumulator = pre.soil.moistureDecreaseAccumulator

----------------------------------------------------------------------------
(* Properties of the configuration (SpecConfig) *)

\* C14: in every reachable state 0 <= currentLevel <= tankCapacity and
\* irrigationVolume > 0: after consumption, refill, empty, settings updates
\* (also one that reduces the capacity below the level) and loads.
C14_TankLevelWithinCapacity ==
    /\ JsLessEq(0, water.currentLevel)
    /\ JsLessEq(water.currentLevel, water.tankCapacity)
    /\ JsGreater(water.irrigationVolume, 0)

\* C15: after a configuration change (saveSettings, resetSettings, the tank
\* manager's updateSettings) and at least one run of the scheduler's
\* one-minute check with no further change, the soil manager's
\* scheduledIrrigations holds, as a collection, the enabled entries of the
\* tank's schedule, and stays so.  Checked in the state right after a run of
\* the check, once the callbacks the change left behind have run.
C15_SchedulesFollowTank ==
    /\ lastOp.op = "checkScheduledIrrigation"
    /\ configured
    /\ pending = <<>>
    => SortTimes(soil.scheduledIrrigations) = SortTimes(ActiveSchedules(water.schedules))

\* C16: forceSyncScheduledIrrigations called twice in a row, with the same
\* tank schedules and the same stored irrigationSettings, leaves the soil
\* manager's scheduledIrrigations and the persisted soil record after the
\* second call exactly as they were after the first.  In the state right
\* after a call, one more call returns the settings and the record of that
\* state.
C16_ForceSyncIdempotent ==
    lastOp.op = "forceSync" =>
        /\ ForceSyncScheduledIrrigations(soil, water, storedSettings) = soil
        /\ (ForceSyncSaves(soil, water, storedSettings) => savedSoil = <<soil>>)

\* a call when the tank's enabled entries and the stored settings name
\* different schedules: the next call writes the list twice and saves
C16_Witness ==
    /\ lastOp.op = "forceSync"
    /\ storedSettings # <<>>
    /\ SortTimes(ActiveSchedules(water.schedules))
           # SortTimes(GlobalSchedules(storedSettings[1].waterLevel))
    /\ ForceSyncSaves(soil, water, storedSettings)

\* C20: after a configuration change that sets the irrigation duration to d
\* (d >= 5), an irrigation started afterwards has its automatic stop
\* scheduled d minutes after its start and uses d as irrigationDuration.
\* Checked in the state right after a scheduled trigger has started one.
C20_ConfiguredDurationIsUsed ==
    /\ lastOp.op = "scheduled"
    /\ Started
    /\ configured
    /\ currentSettings.irrigation.duration >= 5
    => /\ soil.irrigationDuration = currentSettings.irrigation.duration
       /\ stopTimers # <<>>
       /\ stopTimers[Len(stopTimers)] = now + currentSettings.irrigation.duration

----------------------------------------------------------------------------
(* The two event logs.  A log that an earlier session left in localStorage *)
(* is read back by every call, so the calls start from logs of any length  *)
(* up to the caps.                                                         *)

MoistureLogCap == 1000

\* logMoisture
LogMoisture(logs, s, eventType) ==
    LET pushed == Append(logs, [timestamp |-> now, moisture |-> s.currentMoisture,
                                weather |-> s.weather, isIrrigating |-> s.isIrrigating,
                                eventType |-> eventType,
                                evaporationAccumulator |-> s.moistureDecreaseAccumulator])
    IN IF Len(pushed) > MoistureLogCap
       THEN SubSeq(pushed, Len(pushed) - MoistureLogCap + 1, Len(pushed))
       ELSE pushed

\* the event types the callers of logMoisture pass
EventTypes == {"periodic_update", "rain_event", "irrigation_complete"}

\* the logs of an earlier session: n entries written before the page load,
\* oldest first
EarlierIrrigationLog(n) ==
    [k \in 1..n |-> [timestamp |-> k - n - 1, volume |-> 7, remainingLevel |-> 72]]

EarlierMoistureLog(n) ==
    [k \in 1..n |-> [timestamp |-> k - n - 1, moisture |-> Pct(45), weather |-> "cerah",
                     isIrrigating |-> FALSE, eventType |-> "periodic_update",
                     evaporationAccumulator |-> 0]]

\* the lengths of the stored logs at page load
InitLogLengths ==
    { [irrigation |-> 0, moisture |-> 0],
      [irrigation |-> LogCap - 1, moisture |-> MoistureLogCap - 1],
      [irrigation |-> LogCap, moisture |-> MoistureLogCap] }

LogUnchanged ==
    UNCHANGED <<water, savedTank, soil, savedSoil, chain, scheduledIntervals, stopTimers,
                pending, currentSettings, storedSettings, apiCondition, now, half, polled,
                nextDue, triggerCount, evap, schedLog, configured>>

\* a call of the tank manager's logIrrigation
LogIrrigationCall ==
    /\ ops < MaxLogOps
    /\ irrigationLogs' = LogIrrigation(irrigationLogs, water)
    /\ ops' = ops + 1
    /\ lastOp' = [op |-> "logIrrigation", entry |-> now, ret |-> "none"]
    /\ pre' = Snapshot
    /\ UNCHANGED moistureLogs
    /\ LogUnchanged

\* a call of the soil manager's logMoisture
LogMoistureCall(eventType) ==
    /\ ops < MaxLogOps
    /\ moistureLogs' = LogMoisture(moistureLogs, soil, eventType)
    /\ ops' = ops + 1
    /\ lastOp' = [op |-> "logMoisture", entry |-> now, ret |-> eventType]
    /\ pre' = Snapshot
    /\ UNCHANGED irrigationLogs
    /\ LogUnchanged

\* a minute passes
LogAdvance ==
    /\ now < MaxLogNow
    /\ now' = now + 1
    /\ lastOp' = [op |-> "advance", entry |-> 0, ret |-> "none"]
    /\ pre' = Snapshot
    /\ UNCHANGED <<water, savedTank, soil, savedSoil, irrigationLogs, moistureLogs, chain,
                   scheduledIntervals, stopTimers, pending, currentSettings, storedSettings,
                   apiCondition, half, polled, nextDue, triggerCount, evap, schedLog, ops,
                   configured>>

InitLog ==
    /\ \E stored \in {<<>>} : Construct("water", 72, Pct(30), stored)
    /\ savedSoil = <<soil>>
    /\ \E l \in InitLogLengths :
          /\ irrigationLogs = EarlierIrrigationLog(l.irrigation)
          /\ moistureLogs = EarlierMoistureLog(l.moisture)
    /\ stopTimers = <<>>
    /\ apiCondition = "cerah"
    /\ now = 0
    /\ half = 0
    /\ polled = [check |-> 0, fired |-> {}, fresh |-> FALSE, weather |-> 0]
    /\ nextDue = <<>>
    /\ triggerCount = <<>>
    /\ evap = [m0 |-> 0, clamped |-> FALSE]
    /\ schedLog = <<>>
    /\ ops = 0
    /\ configured = FALSE
    /\ lastOp = NoOp
    /\ pre = Snapshot

NextLog ==
    \/ LogIrrigationCall
    \/ \E eventType \in EventTypes : LogMoistureCall(eventType)
    \/ LogAdvance

SpecLog == InitLog /\ [][NextLog]_vars

----------------------------------------------------------------------------
(* The irrigation ramp.  The one-minute interval of updateMoisture can be  *)
(* held back (a suspended or throttled page), so a tick may cover several  *)
(* minutes; updateMoisture measures them from lastUpdate.                  *)

InitRampMoistures == {Pct(8), Pct(20)}

\* a minute passes, whether or not the timers of the page have run
RampAdvance ==
    /\ now < MaxRampNow
    /\ now' = now + 1
    /\ lastOp' = [op |-> "advance", entry |-> 0, ret |-> "none"]
    /\ pre' = Snapshot
    /\ UNCHANGED <<water, savedTank, soil, savedSoil, irrigationLogs, chain, scheduledIntervals,
                   stopTimers, pending, currentSettings, storedSettings, apiCondition,
                   polled, schedLog, ops>>
    /\ TimerVarsUnchanged

\* the one-minute interval of startMoistureSimulation: updateMoisture(),
\* with the minutes it measures
UpdateMoistureTick ==
    /\ soil.lastUpdate < now
    /\ soil' = UpdateMoistureOf(soil)
    /\ savedSoil' = <<soil'>>
    /\ lastOp' = [op |-> "tick", entry |-> Min2(now - soil.lastUpdate, 60), ret |-> "none"]
    /\ pre' = Snapshot
    /\ UNCHANGED <<water, savedTank, irrigationLogs, chain, scheduledIntervals, stopTimers, pending,
                   currentSettings, storedSettings, apiCondition, now, polled, schedLog, ops>>
    /\ TimerVarsUnchanged

InitRamp ==
    /\ \E moisture \in InitRampMoistures : Construct("water", 72, moisture, <<>>)
    /\ InitCommon
    /\ pre = Snapshot

NextRamp ==
    \/ ManualIrrigation
    \/ AutoStop
    \/ UpdateMoistureTick
    \/ RampAdvance

SpecRamp == InitRamp /\ [][NextRamp]_vars

----------------------------------------------------------------------------
(* Time jumps.  The page is suspended for more than an hour and the next   *)
(* tick of updateMoisture measures the whole gap; the soil record of the   *)
(* earlier session holds the weather.                                      *)

JumpMoistures == {Pct(3), Pct(30)}
JumpWeathers == {"cerah", "mendung"}

\* a minute passes, whether or not the timers of the page have run
JumpAdvance ==
    /\ now < MaxJumpNow
    /\ now' = now + 1
    /\ lastOp' = [op |-> "advance", entry |-> 0, ret |-> "none"]
    /\ pre' = Snapshot
    /\ UNCHANGED <<water, savedTank, soil, savedSoil, irrigationLogs, chain, scheduledIntervals,
                   stopTimers, pending, currentSettings, storedSettings, apiCondition,
                   polled, schedLog, ops>>
    /\ TimerVarsUnchanged

InitJump ==
    /\ \E moisture \in JumpMoistures, weather \in JumpWeathers :
          LET c == Startup("water", <<SavedWater(72, <<>>)>>,
                           <<[SavedSoil(moisture) EXCEPT !.weather = weather]>>, <<>>, 0)
          IN /\ water = c.water
             /\ savedTank = c.savedTank
             /\ scheduledIntervals = c.intervals
             /\ currentSettings = c.currentSettings
             /\ storedSettings = <<>>
             /\ soil = c.soil
             /\ chain = c.chain
             /\ pending = c.pending
    /\ InitCommon
    /\ pre = Snapshot

NextJump ==
    \/ UpdateMoistureTick
    \/ JumpAdvance

SpecJump == InitJump /\ [][NextJump]_vars

----------------------------------------------------------------------------
(* The evaporation accumulator under changing weather: the buttons for    *)
(* Clear and Overcast, and ticks that may cover several minutes.           *)

InitAccum ==
    /\ \E weather \in JumpWeathers :
          LET c == Startup("water", <<SavedWater(72, <<>>)>>,
                           <<[SavedSoil(Pct(30)) EXCEPT !.weather = weather]>>, <<>>, 0)
          IN /\ water = c.water
             /\ savedTank = c.savedTank
             /\ scheduledIntervals = c.intervals
             /\ currentSettings = c.currentSettings
             /\ storedSettings = <<>>
             /\ soil = c.soil
             /\ chain = c.chain
             /\ pending = c.pending
    /\ InitCommon
    /\ pre = Snapshot

\* a minute passes, whether or not the timers of the page have run
AccumAdvance ==
    /\ now < MaxAccumNow
    /\ now' = now + 1
    /\ lastOp' = [op |-> "advance", entry |-> 0, ret |-> "none"]
    /\ pre' = Snapshot
    /\ UNCHANGED <<water, savedTank, soil, savedSoil, irrigationLogs, chain, scheduledIntervals,
                   stopTimers, pending, currentSettings, storedSettings, apiCondition,
                   polled, schedLog, ops>>
    /\ TimerVarsUnchanged

NextAccum ==
    \/ UpdateMoistureTick
    \/ AccumAdvance
    \/ \E weather \in JumpWeathers : SetWeatherButton(weather)

SpecAccum == InitAccum /\ [][NextAccum]_vars

----------------------------------------------------------------------------
(* Requests and weather changes that find an irrigation active: the soil  *)
(* record of the earlier session may hold isIrrigating = true, which       *)
(* loadSettings restores.                                                  *)

InitRestart ==
    /\ \E order \in {"water", "soil"}, irrigating \in BOOLEAN :
          LET c == Startup(order, <<SavedWater(72, <<>>)>>,
                           <<[SavedSoil(Pct(30)) EXCEPT !.isIrrigating = irrigating]>>, <<>>, 0)
          IN /\ water = c.water
             /\ savedTank = c.savedTank
             /\ scheduledIntervals = c.intervals
             /\ currentSettings = c.currentSettings
             /\ storedSettings = <<>>
             /\ soil = c.soil
             /\ chain = c.chain
             /\ pending = c.pending
    /\ InitCommon
    /\ pre = Snapshot

\* a minute passes, whether or not the timers of the page have run
RestartAdvance ==
    /\ now < MaxRestartNow
    /\ now' = now + 1
    /\ lastOp' = [op |-> "advance", entry |-> 0, ret |-> "none"]
    /\ pre' = Snapshot
    /\ UNCHANGED <<water, savedTank, soil, savedSoil, irrigationLogs, chain, scheduledIntervals,
                   stopTimers, pending, currentSettings, storedSettings, apiCondition,
                   polled, schedLog, ops>>
    /\ TimerVarsUnchanged

NextRestart ==
    \/ ManualIrrigation
    \/ RunPending
    \/ UpdateMoistureTick
    \/ \E weather \in Weathers : SetWeatherButton(weather)
    \/ RestartAdvance

SpecRestart == InitRestart /\ [][NextRestart]_vars

----------------------------------------------------------------------------
(* The soil manager's detection of schedule times, with slots that lie     *)
(* one, two and three minutes apart.                                       *)

DebounceTimes == {<<7, 2>>, <<7, 3>>, <<7, 4>>, <<7, 5>>}

InitDebounce ==
    /\ \E order \in {"water", "soil"}, s1 \in DebounceTimes, s2 \in DebounceTimes,
          e2 \in BOOLEAN :
          Construct(order, 72, Pct(37), <<MakeForm(s1, s2, TRUE, e2, 40, TRUE, 15)>>)
    /\ InitCommon
    /\ pre = Snapshot

\* the one-minute interval of startScheduledIrrigationCheck:
\* checkScheduledIrrigation(), with the lastIrrigationCheck it finds
SlotCheck ==
    /\ polled.check < now
    /\ LET s1 == ForceSyncScheduledIrrigations(soil, water, storedSettings)
           timeSinceLastCheck == now - s1.lastIrrigationCheck
           detected == Includes(s1.scheduledIrrigations, CurrentTimeString)
                       /\ timeSinceLastCheck > 2
       IN /\ soil' = IF detected THEN [s1 EXCEPT !.lastIrrigationCheck = now] ELSE s1
          /\ savedSoil' = IF detected \/ ForceSyncSaves(soil, water, storedSettings)
                          THEN <<soil'>> ELSE savedSoil
          /\ lastOp' = [op |-> "slotCheck", entry |-> soil.lastIrrigationCheck,
                        ret |-> IF detected THEN "detected" ELSE "none"]
    /\ polled' = [polled EXCEPT !.check = now]
    /\ pre' = Snapshot
    /\ UNCHANGED <<water, savedTank, irrigationLogs, chain, scheduledIntervals, stopTimers, pending,
                   currentSettings, storedSettings, apiCondition, now, schedLog, ops>>
    /\ TimerVarsUnchanged

\* the clock reaches the next minute
DebounceAdvance ==
    /\ now < MaxDebounceNow
    /\ pending = <<>>
    /\ polled.check = now
    /\ now' = now + 1
    /\ lastOp' = [op |-> "advance", entry |-> 0, ret |-> "none"]
    /\ pre' = Snapshot
    /\ UNCHANGED <<water, savedTank, soil, savedSoil, irrigationLogs, chain, scheduledIntervals,
                   stopTimers, pending, currentSettings, storedSettings, apiCondition,
                   polled, schedLog, ops>>
    /\ TimerVarsUnchanged

NextDebounce ==
    \/ SlotCheck
    \/ RunPending
    \/ DebounceAdvance

SpecDebounce == InitDebounce /\ [][NextDebounce]_vars

----------------------------------------------------------------------------
(* Irrigations that are stopped by a call of stopIrrigation() on the       *)
(* global soilMoistureManager before their auto-stop timer fires, and the  *)
(* timers that startIrrigation has scheduled.                              *)

\* soilMoistureManager.stopIrrigation() is called while an irrigation is
\* active; the pending setTimeout is left as it is
StopIrrigationCall ==
    /\ soil.isIrrigating
    /\ soil' = StopIrrigation(soil)
    /\ savedSoil' = <<soil'>>
    /\ lastOp' = [op |-> "stopIrrigation", entry |-> 0, ret |-> "none"]
    /\ pre' = Snapshot
    /\ UNCHANGED <<water, savedTank, irrigationLogs, chain, scheduledIntervals, stopTimers, pending,
                   currentSettings, storedSettings, apiCondition, now, polled, schedLog, ops>>
    /\ TimerVarsUnchanged

\* the setTimeout callback of startIrrigation: stopIrrigation(), with the
\* position of the timer among the pending ones (the timers are kept in the
\* order startIrrigation scheduled them in)
StopTimerFires ==
    /\ \E k \in 1..Len(stopTimers) :
          /\ stopTimers[k] <= now
          /\ stopTimers' = SubSeq(stopTimers, 1, k - 1) \o SubSeq(stopTimers, k + 1, Len(stopTimers))
          /\ lastOp' = [op |-> "stopTimer", entry |-> k, ret |-> "none"]
    /\ soil' = StopIrrigation(soil)
    /\ savedSoil' = IF soil.isIrrigating THEN <<soil'>> ELSE savedSoil
    /\ pre' = Snapshot
    /\ UNCHANGED <<water, savedTank, irrigationLogs, chain, scheduledIntervals, pending, currentSettings,
                   storedSettings, apiCondition, now, polled, schedLog, ops>>
    /\ TimerVarsUnchanged

\* the clock reaches the next minute; the timers due in this minute have run
StopAdvance ==
    /\ now < MaxStopNow
    /\ pending = <<>>
    /\ \A k \in 1..Len(stopTimers) : stopTimers[k] > now
    /\ now' = now + 1
    /\ polled' = [polled EXCEPT !.fired = {}, !.fresh = FALSE]
    /\ lastOp' = [op |-> "advance", entry |-> 0, ret |-> "none"]
    /\ pre' = Snapshot
    /\ UNCHANGED <<water, savedTank, soil, savedSoil, irrigationLogs, chain, scheduledIntervals,
                   stopTimers, pending, currentSettings, storedSettings, apiCondition,
                   schedLog, ops>>
    /\ TimerVarsUnchanged

NextStop ==
    \/ ManualIrrigation
    \/ \E i \in 1..2 : ScheduleCheck(i)
    \/ StopIrrigationCall
    \/ StopTimerFires
    \/ RunPending
    \/ StopAdvance

SpecStop == InitSoil /\ [][NextStop]_vars

----------------------------------------------------------------------------
(* The irrigation duration: forms and stored settings that ask for less than
   five minutes, or leave the field empty *)

\* parseInt of the duration field gives 3, or NaN for an empty field;
\* saveSettings does not validate it
FormTiny == MakeForm(T0700, T1600, TRUE, TRUE, 40, TRUE, 3)
FormBlankDuration == MakeForm(T0700, T1600, TRUE, TRUE, 40, TRUE, NaN)

DurationForms == {FormTiny, FormBlankDuration, FormShort, FormLong}
InitDurationStored == {<<>>, <<FormTiny>>, <<FormLong>>}

\* AdvanceMinute within the minutes explored here
DurationAdvance == now < MaxDurationNow /\ AdvanceMinute

InitDuration ==
    /\ \E order \in {"water", "soil"}, stored \in InitDurationStored :
          Construct(order, 72, Pct(30), stored)
    /\ InitCommon
    /\ pre = Snapshot

NextDuration ==
    \/ \E f \in DurationForms : SaveSettings(f)
    \/ ResetSettings
    \/ Reload("none")
    \/ RunPending
    \/ UpdateMoisture
    \/ CheckScheduledIrrigation
    \/ DurationAdvance

SpecDuration == InitDuration /\ [][NextDuration]_vars

----------------------------------------------------------------------------
(* The classification of a moisture value *)

\* this.moistureRanges in the order of its keys, the bounds in millipercent
MoistureRanges ==
    << [name |-> "Sangat Kering", min |-> Pct(0), max |-> Pct(15), status |-> "dry"],
       [name |-> "Kering", min |-> Pct(16), max |-> Pct(24), status |-> "low"],
       [name |-> "Optimal (Drip Irrigation)", min |-> Pct(25), max |-> Pct(40), status |-> "wet"],
       [name |-> "Lembap", min |-> Pct(41), max |-> Pct(69), status |-> "very-wet"],
       [name |-> "Sangat Basah (Hujan)", min |-> Pct(70), max |-> Pct(100), status |-> "saturated"] >>

\* getMoistureRange: the first range that holds the value, and the first
\* range of the table when none does
GetMoistureRange(moisture) ==
    LET holding == { i \in 1..Len(MoistureRanges) :
                        moisture >= MoistureRanges[i].min /\ moisture <= MoistureRanges[i].max }
    IN IF holding # {}
       THEN MoistureRanges[CHOOSE i \in holding : \A j \in holding : i <= j]
       ELSE MoistureRanges[1]

----------------------------------------------------------------------------
(* Properties of the request's result, the logs and the display *)

\* C21: the irrigation request returns its outcome to the caller, also after
\* the soil manager has wrapped performIrrigation: the manual request returns
\* true exactly when the tank was consumed and soil irrigation started, and
\* false otherwise.
C21_RequestReturnsOutcome ==
    lastOp.op = "manual" =>
        /\ lastOp.ret \in {"true", "false"}
        /\ (lastOp.ret = "true") = (Consumed /\ Started)

DisplayOps == {"updateDisplay", "getCurrentMoistureStatus", "metricsRefresh"}

WellFormed(cs) ==
    /\ cs.waterLevel.tankCapacity # NaN /\ cs.waterLevel.tankCapacity > 0
    /\ cs.waterLevel.irrigationVolume # NaN /\ cs.waterLevel.irrigationVolume > 0
    /\ cs.waterLevel.irrigationVolume <= cs.waterLevel.tankCapacity
    /\ cs.waterLevel.lowLevelThreshold # NaN
    /\ cs.waterLevel.lowLevelThreshold \in 1..100
    /\ cs.soilMoisture.min # NaN /\ cs.soilMoisture.max # NaN /\ cs.soilMoisture.optimal # NaN
    /\ cs.soilMoisture.min < cs.soilMoisture.max
    /\ cs.soilMoisture.optimal >= cs.soilMoisture.min
    /\ cs.soilMoisture.optimal <= cs.soilMoisture.max

\* the save that ran last changed nothing
SaveChangedNothing ==
    /\ currentSettings = pre.settings
    /\ storedSettings = pre.stored
    /\ water = pre.water
    /\ soil = pre.soil

\* C23: a save of a form with malformed or out-of-range values is rejected
\* before any mutation.  A rejected save leaves currentSettings, the stored
\* irrigationSettings and both managers as they were, and a save that is
\* not rejected was one of a form whose values are numbers within the rules.
C23_InvalidSaveRejected ==
    lastOp.op = "saveSettings" =>
        IF lastOp.ret = "rejected" THEN SaveChangedNothing
        ELSE WellFormed(currentSettings)

\* C24: persistence round trip.  A page load from the intact persisted record
\* of the soil manager restores the moisture, the weather, isIrrigating, the
\* irrigation start time, the irrigation target moisture and the evaporation
\* accumulator to the values they had before the reload.
C24_ReloadRestoresSoilFields ==
    lastOp.op = "reload" /\ lastOp.ret = "none" =>
        /\ soil.currentMoisture = pre.soil.currentMoisture
        /\ soil.weather = pre.soil.weather
        /\ soil.isIrrigating = pre.soil.isIrrigating
        /\ soil.irrigationStartTime = pre.soil.irrigationStartTime
        /\ soil.irrigationTargetMoisture = pre.soil.irrigationTargetMoisture
        /\ soil.moistureDecreaseAccumulator = pre.soil.moistureDecreaseAccumulator

\* the handlers that change the settings of a manager
MutatingOps ==
    {"manual", "scheduled", "autoStop", "updateMoisture", "checkScheduledIrrigation",
     "setWeather", "emptyMoisture", "emptyTank", "refillTank", "saveSettings",
     "checkSoilManager", "checkWaterManager", "forceSync", "integrate"}

DailyConsumption == water.irrigationVolume * EnabledCount(water.schedules)

\* the handler that ran last was a tank operation that completed
TankOperation ==
    \/ lastOp.op \in {"init", "reload", "emptyTank", "refillTank", "resetSettings"}
    \/ lastOp.op = "saveSettings" /\ lastOp.ret = "saved"
    \/ Request /\ Consumed

\* C26: after every tank operation (consume, refill, empty, settings update,
\* construction) the estimated-empty time is null if and only if
\* autoIrrigation is off or the daily consumption irrigationVolume *
\* count(enabled schedules) is 0; otherwise it is now + currentLevel /
\* dailyConsumption days.
C26_EmptyTimeAfterTankOperation ==
    TankOperation =>
        water.emptyTankTime =
            IF ~water.autoIrrigation \/ DailyConsumption = 0 THEN <<>>
            ELSE <<now + (water.currentLevel * MinutesPerDay) \div DailyConsumption>>

\* the minutes of the day of a list of times
MinuteSet(times) == { MinutesOf(times[k]) : k \in 1..Len(times) }

\* the slot the display has to show at minute currentTime for the entries
\* at the minutes in E
ExpectedSlot(E, currentTime) ==
    LET Min(S) == CHOOSE m \in S : \A n \in S : m <= n
        today == { m \in E : m > currentTime }
    IN IF today # {} THEN ToString(Min(today)) ELSE ToString(Min(E))

\* C27: for every current minute of the day and every schedule list with an
\* enabled entry, the next-schedule display of either manager shows the
\* enabled entry with the smallest time after the current minute, and the
\* earliest enabled entry when none is left today.  An entry at the current
\* minute is not shown as a slot of today, and a disabled entry is never
\* shown.
C27_NextSlotIsEarliestAfterNow ==
    LET enabled == MinuteSet(ActiveSchedules(water.schedules))
    IN /\ (lastOp.op = "waterNextSchedule" /\ enabled # {}) =>
              lastOp.ret = ExpectedSlot(enabled, lastOp.entry)
       /\ (lastOp.op = "soilNextSchedule" /\ soil.scheduledIrrigations # <<>>) =>
              /\ lastOp.ret = ExpectedSlot(MinuteSet(soil.scheduledIrrigations), lastOp.entry)
              /\ lastOp.ret \in { ToString(m) : m \in enabled }

\* at 16:00, with entries at 16:00 (enabled) and 07:00 (disabled): the slot at
\* the current minute is left for tomorrow
C27_Witness ==
    /\ lastOp.op = "waterNextSchedule"
    /\ lastOp.entry = 16 * 60
    /\ ActiveSchedules(water.schedules) = <<T1600>>
    /\ \E k \in 1..2 : water.schedules[k].time = T0700
    /\ lastOp.ret = ToString(16 * 60)

\* what a call that read the log `old' and pushed one entry leaves behind
Appended(old, new, cap) ==
    LET removed == Len(old) + 1 - Len(new)
    IN /\ Len(new) = IF Len(old) + 1 > cap THEN cap ELSE Len(old) + 1
       /\ \A k \in 1..(Len(new) - 1) : new[k] = old[k + removed]
       /\ new[Len(new)].timestamp = lastOp.entry

\* C28: the two event logs are bounded and evict oldest first: the irrigation
\* log never holds more than 100 entries and the soil moisture log never more
\* than 1000; a call appends its entry at the end, the entries it removes are
\* the oldest ones of the log it read, and the entries it keeps stay in their
\* order.
C28_LogsBoundedOldestEvicted ==
    /\ Len(irrigationLogs) <= LogCap
    /\ Len(moistureLogs) <= MoistureLogCap
    /\ lastOp.op = "logIrrigation" => Appended(pre.logs, irrigationLogs, LogCap)
    /\ lastOp.op = "logMoisture"
       => /\ Appended(pre.soilLogs, moistureLogs, MoistureLogCap)
          /\ moistureLogs[Len(moistureLogs)].eventType = lastOp.ret

\* both logs were full and each has evicted entries
C28_Witness ==
    /\ lastOp.op = "logMoisture"
    /\ Len(pre.soilLogs) = MoistureLogCap
    /\ Len(moistureLogs) = MoistureLogCap
    /\ moistureLogs[1] = pre.soilLogs[2]
    /\ Len(irrigationLogs) = LogCap
    /\ irrigationLogs[LogCap].timestamp >= 0
    /\ irrigationLogs[1].timestamp < 0

\* the last step was a tick of an irrigation that is inside its duration
IrrigatingTick ==
    /\ lastOp.op = "tick"
    /\ pre.soil.isIrrigating
    /\ pre.soil.irrigationStartTime # <<>>
    /\ now - pre.soil.irrigationStartTime[1] <= pre.soil.irrigationDuration

\* the target a tick computes from the moisture m it finds
RampTarget(m) == Min2(Pct(40), Max2(Pct(25), m + Pct(15)))

\* m + ((target - m) / irrigationDuration) * e
RampSum(s, e) ==
    s.currentMoisture
        + ((RampTarget(s.currentMoisture) - s.currentMoisture) * e) \div s.irrigationDuration

\* C29: on every tick while irrigating, inside the irrigation duration, with
\* elapsed minutes e and moisture m, the target is recomputed from the
\* current moisture as clamp(m + 15, 25, 40) and the moisture becomes
\* m + ((target - m) / irrigationDuration) * e, capped at 40; the moisture
\* after any irrigating tick is at most 40.
C29_RampSumCappedAt40 ==
    IrrigatingTick
    => /\ soil.currentMoisture = Min2(Pct(40), RampSum(pre.soil, lastOp.entry))
       /\ soil.currentMoisture <= Pct(40)

\* C29, amended: the sum is capped at the target the tick recomputed, which
\* is itself at most 40; a tick that is not inside the duration leaves the
\* moisture alone.
C29_RampSumCappedAtTarget ==
    /\ IrrigatingTick
       => /\ soil.currentMoisture
               = Min2(RampTarget(pre.soil.currentMoisture), RampSum(pre.soil, lastOp.entry))
          /\ soil.currentMoisture <= Pct(40)
    /\ lastOp.op = "tick" /\ pre.soil.isIrrigating /\ ~IrrigatingTick
       => soil.currentMoisture = pre.soil.currentMoisture

\* the irrigation started from 20 % at minute 0 with duration 15 and a tick
\* ran in each of its fifteen minutes: the last tick ends below the 35 % a
\* linear ramp to the target of the start would reach
C29_Witness ==
    /\ IrrigatingTick
    /\ lastOp.entry = 1
    /\ now = 15
    /\ pre.soil.irrigationStartTime = <<0>>
    /\ pre.soil.irrigationDuration = 15
    /\ irrigationLogs # <<>>
    /\ irrigationLogs[1].timestamp = 0
    /\ soil.currentMoisture > Pct(32)
    /\ soil.currentMoisture < Pct(33)

\* the last step was an evaporation tick that measured more than 60 minutes
JumpTick ==
    /\ lastOp.op = "tick"
    /\ now - pre.soil.lastUpdate > 60
    /\ ~pre.soil.isIrrigating
    /\ pre.soil.weather \in {"cerah", "mendung"}

\* the decrements of one simulated hour in front of the accumulator a
HourDecrements(s) ==
    (s.moistureDecreaseAccumulator + 60) \div (IF s.weather = "cerah" THEN 15 ELSE 30)

\* C30: a tick whose measured elapsed time exceeds 60 minutes simulates
\* exactly 60 minutes: in Clear weather with accumulator a before the tick it
\* applies floor((a + 60) / 15) decrements of one point, floor((a + 60) / 30)
\* in Overcast, and never more, however large the time jump; the rest of the
\* a + 60 minutes stays in the accumulator.
C30_JumpSimulatesSixtyMinutes ==
    JumpTick
    => /\ soil.currentMoisture
            = Max2(0, pre.soil.currentMoisture - HourDecrements(pre.soil) * Pct(1))
       /\ soil.moistureDecreaseAccumulator
            = pre.soil.moistureDecreaseAccumulator + 60
                - HourDecrements(pre.soil) * (IF pre.soil.weather = "cerah" THEN 15 ELSE 30)
       /\ soil.lastUpdate = now

\* a jump of 65 minutes in Clear weather in front of an accumulator of 10:
\* four decrements, 10 minutes left
C30_Witness ==
    /\ JumpTick
    /\ now - pre.soil.lastUpdate = 65
    /\ pre.soil.weather = "cerah"
    /\ pre.soil.moistureDecreaseAccumulator = 10
    /\ pre.soil.currentMoisture = Pct(30)
    /\ soil.currentMoisture = Pct(26)
    /\ soil.moistureDecreaseAccumulator = 10

----------------------------------------------------------------------------
(* Properties of the accumulator, the timers and the classification *)

\* C31: immediately after every tick the evaporation accumulator satisfies
\* 0 <= accumulator < intervalMinutes of the weather in force at that tick
\* (15 for Clear, 30 for Overcast), also on the first tick after the weather
\* changed from Overcast to Clear with an accumulator of 15 or more.
C31_AccumulatorBelowInterval ==
    lastOp.op = "tick" /\ soil.weather \in {"cerah", "mendung"}
    => /\ soil.moistureDecreaseAccumulator >= 0
       /\ soil.moistureDecreaseAccumulator
            < GetEvaporationParameters(soil.weather).interval

\* the tick found Clear weather and the 20 minutes or more an Overcast tick
\* had left in the accumulator
C31_Witness ==
    /\ lastOp.op = "tick"
    /\ soil.weather = "cerah"
    /\ ~pre.soil.isIrrigating
    /\ pre.soil.moistureDecreaseAccumulator >= 20
    /\ soil.currentMoisture < pre.soil.currentMoisture

\* C32: startIrrigation while already irrigating is a no-op: isIrrigating,
\* irrigationStartTime, irrigationTargetMoisture, the moisture and the
\* accumulator are unchanged and the ignored call schedules no auto-stop
\* timer.  A request that finds an irrigation active leaves all of them as
\* they were; a request that starts one adds a single timer, however many
\* wrappers of performIrrigation call startIrrigation again.
C32_StartWhileIrrigatingIsNoOp ==
    /\ Request /\ pre.soil.isIrrigating
       => /\ soil.isIrrigating
          /\ soil.irrigationStartTime = pre.soil.irrigationStartTime
          /\ soil.irrigationTargetMoisture = pre.soil.irrigationTargetMoisture
          /\ soil.currentMoisture = pre.soil.currentMoisture
          /\ soil.moistureDecreaseAccumulator = pre.soil.moistureDecreaseAccumulator
          /\ stopTimers = pre.timers
    /\ Request /\ Started
       => /\ stopTimers = Append(pre.timers, now + pre.soil.irrigationDuration)
          /\ soil.irrigationStartTime = <<now>>

\* the request consumed water while the irrigation was active
C32_Witness ==
    /\ lastOp.op = "manual"
    /\ pre.soil.isIrrigating
    /\ Consumed
    /\ Len(irrigationLogs) = Len(pre.logs) + 1

\* C33: irrigation and evaporation never overlap: in every reachable state
\* with isIrrigating = true the evaporation accumulator is 0, and no tick
\* taken while isIrrigating is true lowers the moisture or adds time to the
\* accumulator.
C33_NoEvaporationWhileIrrigating ==
    /\ soil.isIrrigating => soil.moistureDecreaseAccumulator = 0
    /\ lastOp.op = "tick" /\ pre.soil.isIrrigating
       => /\ soil.currentMoisture >= pre.soil.currentMoisture
          /\ soil.moistureDecreaseAccumulator = pre.soil.moistureDecreaseAccumulator

\* a tick that measured several minutes of an irrigation which started after
\* evaporation had been accumulating
C33_Witness ==
    /\ lastOp.op = "tick"
    /\ lastOp.entry >= 3
    /\ pre.soil.isIrrigating
    /\ pre.soil.irrigationStartTime # <<>>
    /\ pre.soil.irrigationStartTime[1] > pre.soil.lastUpdate
    /\ pre.soil.lastUpdate > 0
    /\ soil.currentMoisture > pre.soil.currentMoisture

\* C34: the 2-minute debounce is tracked per slot, not globally: a slot that
\* matched and was marked fired less than 2 minutes ago does not prevent a
\* different enabled slot whose time matches the current minute from being
\* detected and marked fired.
C34_DebounceIsPerSlot ==
    /\ lastOp.op = "slotCheck"
    /\ lastOp.entry > 0
    /\ lastOp.entry < now
    /\ now - lastOp.entry < 2
    /\ Includes(soil.scheduledIrrigations, CurrentTimeString)
    => /\ lastOp.ret = "detected"
       /\ soil.lastIrrigationCheck = now

\* C35: the scheduled skip-if-wet decision depends only on the fixed 35 %
\* and not on the configurable moistureThresholds.min: a scheduled trigger
\* with moisture below 35, sufficient water, autoIrrigation enabled and no
\* irrigation active irrigates for every value of moistureThresholds.min.
C35_ScheduledGateIgnoresConfiguredMin ==
    /\ lastOp.op = "scheduled"
    /\ pre.soil.currentMoisture < Pct(35)
    /\ SufficientWater
    /\ pre.water.autoIrrigation
    /\ pre.soil.autoIrrigation # <<FALSE>>
    /\ ~pre.soil.isIrrigating
    => /\ ConsumedVolume
       /\ Started

\* C36: an irrigating tick never decreases the moisture: for every moisture
\* m in [0,100], also above 40 (after rain, or from the default 45), and
\* every elapsed time, the moisture after processIrrigationIncrease is at
\* least m.
C36_IrrigatingTickNeverDecreases ==
    lastOp.op = "tick" /\ pre.soil.isIrrigating
    => soil.currentMoisture >= pre.soil.currentMoisture

\* C37: an auto-stop timer only ends the irrigation that scheduled it: when
\* stopIrrigation was called before the timer of irrigation A fired and
\* irrigation B was started afterwards, the pending timer of A does not end
\* B; the timer that ends an irrigation is the one that irrigation's start
\* scheduled, which is the newest of the pending timers.
C37_TimerEndsOnlyItsOwnIrrigation ==
    /\ lastOp.op = "stopTimer"
    /\ pre.soil.isIrrigating
    /\ ~soil.isIrrigating
    => lastOp.entry = Len(pre.timers)

\* C38: in every reachable state the soil manager's irrigationDuration is a
\* number of at least 5, and no updateSettings call, from the settings form
\* or from the tank manager's sync, leaves a value below 5.  lastOp.entry of
\* a save is what the form's updateSettings call left.
C38_DurationAtLeastFive ==
    /\ soil.irrigationDuration # NaN
    /\ soil.irrigationDuration >= 5
    /\ lastOp.op = "saveSettings" /\ lastOp.ret = "saved" =>
          lastOp.entry # NaN /\ lastOp.entry >= 5

\* the part of C38 about the states between handlers
C38_DurationAtLeastFiveBetweenHandlers ==
    /\ soil.irrigationDuration # NaN
    /\ soil.irrigationDuration >= 5

\* the place of a range in the table, from the driest to the wettest
RangeRank(range) == CHOOSE i \in 1..Len(MoistureRanges) : MoistureRanges[i] = range

\* the range a value is classified into holds the value
ClassifiedIntoItsRange(moisture) ==
    /\ moisture >= GetMoistureRange(moisture).min
    /\ moisture <= GetMoistureRange(moisture).max

\* C39: the classification is total and monotone on [0,100].  The moisture
\* of every reachable state, whole or not, lies in the range it is
\* classified into, and of the moisture before the last step and the one
\* after it the higher is never classified into a drier range.
C39_ClassificationTotalAndMonotone ==
    LET before == pre.soil.currentMoisture
        after == soil.currentMoisture
    IN /\ ClassifiedIntoItsRange(after)
       /\ before <= after =>
             RangeRank(GetMoistureRange(before)) <= RangeRank(GetMoistureRange(after))
       /\ after <= before =>
             RangeRank(GetMoistureRange(after)) <= RangeRank(GetMoistureRange(before))

====
